---------------------------- MODULE Spec2Model ----------------------------
(***************************************************************************)
(* A model of spud_rs: the SPUD binary object format, its lock-guarded     *)
(* synchronous builder (SpudBuilderSync / SpudObjectSync), the container   *)
(* header writer and the decoder (SpudDecoder / DecoderObject).            *)
(*                                                                         *)
(* Bytes are the integers 0..255.  Byte buffers are sequences of bytes.    *)
(* Rust indexes from 0 and TLA+ from 1: the decoder's cursor `index` keeps *)
(* the Rust value, and contents[index] is written At(contents, index).     *)
(* A usize is kept as its 8 little-endian bytes wherever its value may not *)
(* fit the model checker's integers (a 64-bit target is assumed).          *)
(***************************************************************************)
EXTENDS Integers, Sequences, FiniteSets, TLC

VARIABLES
    pc,           \* position of the scenario: "build", "encoded", "loaded", "decoded", or a probe position
    data,         \* SpudBuilderSync.data: the shared byte buffer
    field_names,  \* SpudBuilderSync.field_names: IndexMap<(String, u8), u8>, in insertion order
    seen_ids,     \* SpudBuilderSync.seen_ids: the byte values marked used
    objects,      \* the object registries, flattened: <<[oid, parent]>> in registration order
    stack,        \* the object() calls whose callback is running, innermost last
    counter,      \* ID_COUNTER (AtomicU32)
    instance,     \* INSTANCE_IDENTIFIER
    calls,        \* history of the builder calls made so far (what was asked, where it wrote)
    out,          \* the bytes handed from encode to SpudDecoder::new (the file)
    decoder,      \* the outcome of SpudDecoder::new
    result,       \* the outcome of SpudDecoder::decode
    probe,        \* input of a pure-function probe (a byte, or a usize as 8 bytes)
    probed        \* output of a pure-function probe

vars == <<pc, data, field_names, seen_ids, objects, stack, counter, instance,
          calls, out, decoder, result, probe, probed>>

builderVars == <<data, field_names, seen_ids, objects, stack, counter, instance, calls>>

decoderVars == <<out, decoder, result>>

probeVars == <<probe, probed>>

----------------------------------------------------------------------------
(* Bytes, options, little-endian integers *)

Byte == 0..255

At(s, i) == s[i + 1]

\* Option<T>: None, Some(x)
None == <<>>

Some(x) == <<x>>

IsSome(o) == Len(o) = 1

RECURSIVE Concat(_)
Concat(ss) == IF ss = <<>> THEN <<>> ELSE Head(ss) \o Concat(Tail(ss))

\* n.to_le_bytes() for an integer type of w bytes (two's complement for n < 0)
RECURSIVE to_le_bytes(_, _)
to_le_bytes(n, w) ==
    IF w = 0 THEN <<>>
    ELSE <<n % 256>> \o to_le_bytes((n - (n % 256)) \div 256, w - 1)

\* usize as its 8 little-endian bytes
Usize(n) == to_le_bytes(n, 8)

\* The bytes above position w of a little-endian integer are all zero
HighZero(bs, w) == \A i \in (w + 1)..Len(bs) : bs[i] = 0

\* uN::from_le_bytes, for values the checker's integers hold
RECURSIVE from_le_unsigned(_)
from_le_unsigned(bs) ==
    IF bs = <<>> THEN 0 ELSE Head(bs) + 256 * from_le_unsigned(Tail(bs))

\* An unsigned little-endian integer below 2^24 (bytes 4.. are zero)
SmallUnsigned(bs) == HighZero(bs, 3)

\* A signed little-endian integer in -2^23 .. 2^23-1 (bytes 4.. are sign extension)
SmallSigned(bs) ==
    \/ Len(bs) <= 3
    \/ /\ bs[3] < 128
       /\ \A i \in 4..Len(bs) : bs[i] = 0
    \/ /\ bs[3] >= 128
       /\ \A i \in 4..Len(bs) : bs[i] = 255

\* iN::from_le_bytes, for values the checker's integers hold
from_le_signed(bs) ==
    LET w == IF Len(bs) < 3 THEN Len(bs) ELSE 3
        u == from_le_unsigned(SubSeq(bs, 1, w))
        top == bs[w]
    IN  IF top >= 128
        THEN u - (IF w = 1 THEN 256 ELSE IF w = 2 THEN 65536 ELSE 16777216)
        ELSE u

----------------------------------------------------------------------------
(* spud_types.rs: the type tag vocabulary.  SpudTypes::Number(n) is written  *)
(* as the name of the numeric subtype n.                                     *)

SpudNumberTypes ==
    {"I8", "I16", "I32", "I64", "I128", "U8", "U16", "U32", "U64", "U128", "F32", "F64"}

SpudTypes ==
    {"Null", "Bool", "Decimal", "String", "BinaryBlob", "Date", "Time", "DateTime",
     "ArrayStart", "ArrayEnd", "ObjectStart", "ObjectEnd", "FieldNameId",
     "FieldNameListEnd"} \cup SpudNumberTypes

\* SpudNumberTypes::as_u8 (the enum discriminants)
SpudNumberTypes_as_u8(t) ==
    CASE t = "I8" -> 5 [] t = "I16" -> 6 [] t = "I32" -> 7 [] t = "I64" -> 8
      [] t = "I128" -> 25
      [] t = "U8" -> 9 [] t = "U16" -> 10 [] t = "U32" -> 11 [] t = "U64" -> 12
      [] t = "U128" -> 32
      [] t = "F32" -> 13 [] t = "F64" -> 14

\* SpudTypes::as_u8
as_u8(t) ==
    CASE t = "Null" -> 3 [] t = "Bool" -> 4
      [] t \in SpudNumberTypes -> SpudNumberTypes_as_u8(t)
      [] t = "Decimal" -> 21 [] t = "String" -> 15 [] t = "BinaryBlob" -> 20
      [] t = "Date" -> 22 [] t = "Time" -> 23 [] t = "DateTime" -> 24
      [] t = "ArrayStart" -> 16 [] t = "ArrayEnd" -> 17
      [] t = "ObjectStart" -> 18 [] t = "ObjectEnd" -> 19
      [] t = "FieldNameId" -> 2 [] t = "FieldNameListEnd" -> 1

\* SpudNumberTypes::from_u8
SpudNumberTypes_from_u8(value) ==
    CASE value = 5 -> Some("I8") [] value = 6 -> Some("I16")
      [] value = 7 -> Some("I32") [] value = 8 -> Some("I64")
      [] value = 25 -> Some("I128")
      [] value = 9 -> Some("U8") [] value = 10 -> Some("U16")
      [] value = 11 -> Some("U32") [] value = 12 -> Some("U64")
      [] value = 32 -> Some("U128")
      [] value = 13 -> Some("F32") [] value = 14 -> Some("F64")
      [] OTHER -> None

\* SpudTypes::from_u8: the arm 5..=14 unwraps SpudNumberTypes::from_u8; 0x19
\* and 0x20 have no arm and fall to `_ => None`.
from_u8(value) ==
    CASE value = 1 -> Some("FieldNameListEnd") [] value = 2 -> Some("FieldNameId")
      [] value = 3 -> Some("Null") [] value = 4 -> Some("Bool")
      [] value \in 5..14 -> SpudNumberTypes_from_u8(value)
      [] value = 15 -> Some("String")
      [] value = 16 -> Some("ArrayStart") [] value = 17 -> Some("ArrayEnd")
      [] value = 18 -> Some("ObjectStart") [] value = 19 -> Some("ObjectEnd")
      [] value = 20 -> Some("BinaryBlob") [] value = 21 -> Some("Decimal")
      [] value = 22 -> Some("Date") [] value = 23 -> Some("Time")
      [] value = 24 -> Some("DateTime")
      [] OTHER -> None

----------------------------------------------------------------------------
(* functions/add_value_len.rs *)

\* A conversion that keeps the low w bytes whatever the high bytes are (an `as` cast)
as_cast(value_len, w) == Some(SubSeq(value_len, 1, w))

\* <uN>::try_from(value_len) for an N = 8w bit target: Some(the w bytes) or None
try_from_usize(value_len, w) ==
    IF HighZero(value_len, w) THEN Some(SubSeq(value_len, 1, w)) ELSE None

\* One try_push!(ty, variant) arm: the pushed bytes, or None when the arm is skipped
try_push(value_len, w, variant) ==
    LET value == try_from_usize(value_len, w)
    IN  IF IsSome(value) THEN Some(<<as_u8(variant)>> \o value[1]) ELSE None

\* add_value_length(data, value_len): the first arm that converts pushes and returns
add_value_length(d, value_len) ==
    LET a1 == try_push(value_len, 1, "U8")
        a2 == try_push(value_len, 2, "U16")
        a4 == try_push(value_len, 4, "U32")
        a8 == try_push(value_len, 8, "U64")
    IN  IF IsSome(a1) THEN d \o a1[1]
        ELSE IF IsSome(a2) THEN d \o a2[1]
        ELSE IF IsSome(a4) THEN d \o a4[1]
        ELSE IF IsSome(a8) THEN d \o a8[1]
        ELSE d

----------------------------------------------------------------------------
(* spud_builder/spud_type_ext.rs: the values a caller can add and their    *)
(* bytes.  A value is a record with its kind k:                            *)
(*   [k |-> "Null"], [k |-> "Bool", b], [k |-> <integer subtype>, n],      *)
(*   [k |-> "F32" or "F64", bits] (the IEEE-754 bytes, little-endian),     *)
(*   [k |-> "Decimal", neg, scale, lo] (96-bit mantissa with mid = hi = 0),*)
(*   [k |-> "String", s], [k |-> "BinaryBlob", s],                         *)
(*   [k |-> "Date", year, month, day],                                     *)
(*   [k |-> "Time", hour, minute, second, nanosecond],                     *)
(*   [k |-> "DateTime", date, time], [k |-> "Array", xs].                  *)

IntegerTypes == SpudNumberTypes \ {"F32", "F64"}

\* size_of the numeric subtype, in bytes
NumberWidth(t) ==
    CASE t \in {"I8", "U8"} -> 1 [] t \in {"I16", "U16"} -> 2
      [] t \in {"I32", "U32", "F32"} -> 4 [] t \in {"I64", "U64", "F64"} -> 8
      [] t \in {"I128", "U128"} -> 16

write_bool(value, d) == Append(d, IF value.b THEN 1 ELSE 0)

\* write_null pushes the Null tag (the impl_spud_type_ext! arm pushed it already)
write_null(value, d) == Append(d, as_u8("Null"))

write_primitive_value(value, d) ==
    d \o (IF value.k \in IntegerTypes
          THEN to_le_bytes(value.n, NumberWidth(value.k))
          ELSE value.bits)

\* rust_decimal's Decimal::serialize: flags (scale in byte 2, sign in bit 7 of
\* byte 3), then lo, mid, hi, each a little-endian u32
Decimal_serialize(value) ==
    <<0, 0, value.scale, IF value.neg THEN 128 ELSE 0>>
        \o to_le_bytes(value.lo, 4) \o <<0, 0, 0, 0, 0, 0, 0, 0>>

write_decimal(value, d) == d \o Decimal_serialize(value)

Date_as_le_bytes(value) == to_le_bytes(value.year, 2) \o <<value.month, value.day>>

Time_as_le_bytes(value) ==
    <<value.hour, value.minute, value.second>> \o to_le_bytes(value.nanosecond, 4)

DateTime_as_le_bytes(value) == Date_as_le_bytes(value.date) \o Time_as_le_bytes(value.time)

write_date(value, d) == d \o Date_as_le_bytes(value)

write_time(value, d) == d \o Time_as_le_bytes(value)

write_datetime(value, d) == d \o DateTime_as_le_bytes(value)

RECURSIVE write_spud_bytes(_, _)
RECURSIVE write_items(_, _)
\* the loop of write_slice
write_items(xs, d) ==
    IF xs = <<>> THEN d ELSE write_items(Tail(xs), write_spud_bytes(Head(xs), d))

write_slice(xs, d) ==
    Append(write_items(xs, Append(d, as_u8("ArrayStart"))), as_u8("ArrayEnd"))

\* SpudTypesExt::write_spud_bytes, one arm per impl
write_spud_bytes(value, d) ==
    CASE value.k = "Null" -> write_null(value, Append(d, as_u8("Null")))
      [] value.k = "Bool" -> write_bool(value, Append(d, as_u8("Bool")))
      [] value.k \in SpudNumberTypes ->
            write_primitive_value(value, Append(d, as_u8(value.k)))
      [] value.k = "Decimal" -> write_decimal(value, Append(d, as_u8("Decimal")))
      [] value.k = "Date" -> write_date(value, Append(d, as_u8("Date")))
      [] value.k = "Time" -> write_time(value, Append(d, as_u8("Time")))
      [] value.k = "DateTime" -> write_datetime(value, Append(d, as_u8("DateTime")))
      [] value.k = "Array" -> write_slice(value.xs, d)
      [] value.k = "String" ->
            add_value_length(Append(d, as_u8("String")), Usize(Len(value.s))) \o value.s
      [] value.k = "BinaryBlob" ->
            add_value_length(Append(d, as_u8("BinaryBlob")), Usize(Len(value.s))) \o value.s

----------------------------------------------------------------------------
(* Results.  Ok(x), Err(kind): a Result<T, SpudError>; Panic(why): the call *)
(* unwinds with a panic instead of returning.                               *)

Ok(x) == [st |-> "ok", v |-> x]

Err(kind) == [st |-> "err", v |-> kind]

Panic(why) == [st |-> "panic", v |-> why]

\* A call that never returns: a recursion without end, which overflows the
\* stack or, compiled to a loop, runs forever
Hang(why) == [st |-> "hang", v |-> why]

----------------------------------------------------------------------------
(* types/object_id.rs *)

\* A reading of SystemTime::now() that lies before UNIX_EPOCH
BeforeEpoch == -1

\* ObjectId::new: the timestamp, the instance identifier, and the low 24 bits
\* of the counter value that fetch_add returned
ObjectId_new(timestamp_secs, instance_bytes, count_val) ==
    IF timestamp_secs = BeforeEpoch
    THEN Err("ValidationError: System time is before UNIX epoch")
    ELSE Ok(to_le_bytes(timestamp_secs, 4) \o instance_bytes
              \o SubSeq(to_le_bytes(count_val % 16777216, 4), 1, 3))

\* A read of ID_COUNTER that adds nothing
load_only(count_val) == count_val

\* ID_COUNTER.fetch_add(1, Relaxed) on an AtomicU32: the stored value afterwards
\* (the counter starts below 2^24 and no run makes the 2^32 calls that wrap it)
fetch_add(count_val) == count_val + 1

----------------------------------------------------------------------------
(* functions/generate_u8_id.rs and spud_builder/sync: the builder.  A       *)
(* builder state is the record b of the shared resources:                   *)
(*   b.data, b.field_names, b.seen_ids, b.objects, b.counter.               *)
(* A registry entry of field_names is [name, len, id].                      *)

\* SpudBuilderSync::new
SpudBuilderSync_new(seed) ==
    [data |-> <<>>, field_names |-> <<>>, seen_ids |-> {0, 1}, objects |-> <<>>,
     counter |-> seed]

\* An allocator that hands out the drawn byte without marking its slot
generate_unmarked(id_vec, id) ==
    IF Byte \ id_vec = {} THEN [st |-> "hang", id |-> id, id_vec |-> id_vec]
    ELSE [st |-> "ok", id |-> id, id_vec |-> id_vec]

\* generate_u8_id, given the random byte drawn by the call that ends the
\* recursion (every earlier draw hit a used slot and changed nothing); when
\* every slot is used, every draw hits a used slot and no call ends it
generate_u8_id(id_vec, id) ==
    IF Byte \ id_vec = {} THEN [st |-> "hang", id |-> id, id_vec |-> id_vec]
    ELSE [st |-> "ok", id |-> id, id_vec |-> id_vec \cup {id}]

\* A lookup that finds no name
get_nothing(fns, name) == None

\* IndexMap::get on field_names
FieldNamesGet(fns, name) ==
    LET hits == {i \in 1..Len(fns) : fns[i].name = name /\ fns[i].len = Len(name)}
    IN  IF hits = {} THEN None ELSE Some(fns[CHOOSE i \in hits : TRUE].id)

\* add_field_name without the conversion of the name's length to u8
add_field_name_unchecked(b, field_name, drawn) ==
    LET found == FieldNamesGet(b.field_names, field_name)
        gen == generate_u8_id(b.seen_ids, drawn)
        id == IF IsSome(found) THEN found[1] ELSE gen.id
    IN  Ok([b EXCEPT
              !.seen_ids = IF IsSome(found) THEN @ ELSE gen.id_vec,
              !.field_names =
                  IF IsSome(found) THEN @
                  ELSE Append(@, [name |-> field_name, len |-> Len(field_name) % 256,
                                  id |-> id]),
              !.data = @ \o <<as_u8("FieldNameId"), id>>])

\* SpudObjectSync::add_field_name; drawn is the byte generate_u8_id ends with
add_field_name(b, field_name, drawn) ==
    IF Len(field_name) > 255 THEN Err("TryFromInt")
    ELSE LET found == FieldNamesGet(b.field_names, field_name)
             gen == generate_u8_id(b.seen_ids, drawn)
             id == IF IsSome(found) THEN found[1] ELSE gen.id
         IN  IF ~IsSome(found) /\ gen.st = "hang"
             THEN Hang("generate_u8_id recurses without end")
             ELSE Ok([b EXCEPT
                        !.seen_ids = IF IsSome(found) THEN @ ELSE gen.id_vec,
                        !.field_names =
                            IF IsSome(found) THEN @
                            ELSE Append(@, [name |-> field_name,
                                            len |-> Len(field_name), id |-> id]),
                        !.data = @ \o <<as_u8("FieldNameId"), id>>])

\* SpudObjectSync::new with generate_oid: the start markers are pushed before
\* the identity is made; parent is the registry the object is inserted in
\* (0: the builder's, else the index of the owning object)
SpudObjectSync_new(b, parent, timestamp_secs, instance_bytes) ==
    LET started == [b EXCEPT !.data = @ \o <<as_u8("ObjectStart"), as_u8("ObjectStart")>>]
        oid == ObjectId_new(timestamp_secs, instance_bytes, b.counter)
    IN  IF oid.st = "err" THEN [st |-> "err", v |-> oid.v, b |-> started]
        ELSE [st |-> "ok", v |-> oid.v,
              b |-> [started EXCEPT
                       !.counter = fetch_add(@),
                       !.data = @ \o oid.v,
                       !.objects = Append(@, [oid |-> oid.v, parent |-> parent])]]

\* SpudObjectSync::add_value
add_value(b, field_name, value, drawn) ==
    LET named == add_field_name(b, field_name, drawn)
    IN  IF named.st # "ok" THEN named
        ELSE Ok([named.v EXCEPT !.data = write_spud_bytes(value, @)])

\* The tail of SpudBuilderSync::object and SpudObjectSync::object, once the
\* callback f has returned: `f(..)?` leaves on an error, else the end markers
object_return(b, callback_ok) ==
    IF callback_ok
    THEN [b EXCEPT !.data = @ \o <<as_u8("ObjectEnd"), as_u8("ObjectEnd")>>]
    ELSE b

----------------------------------------------------------------------------
(* functions/initialise_header.rs *)

\* "SPUD-0.8.1"
SPUD_VERSION == <<83, 80, 85, 68, 45, 48, 46, 56, 46, 49>>

RECURSIVE HeaderEntries(_)
\* the loop over field_names.iter()
HeaderEntries(fns) ==
    IF fns = <<>> THEN <<>>
    ELSE <<Head(fns).len>> \o Head(fns).name \o <<Head(fns).id>> \o HeaderEntries(Tail(fns))

initialise_header(fns, d) ==
    SPUD_VERSION \o HeaderEntries(fns) \o <<as_u8("FieldNameListEnd")>> \o d
        \o <<222, 173, 190, 239>>

\* SpudBuilderSync::encode: the walk over the object registries writes nothing;
\* the buffer is cleared and refilled with the header, which is returned
SpudBuilderSync_encode(b) ==
    LET header == initialise_header(b.field_names, b.data)
    IN  [b |-> [b EXCEPT !.data = header], v |-> header]

----------------------------------------------------------------------------
(* The decoder's output: serde_json values.  Text is a sequence of bytes    *)
(* (UTF-8); a value is [k, v]:                                              *)
(*   null, bool b, num n (an integer the checker holds), bignum <<t, bytes>>*)
(*   (a wider integer, by its subtype and bytes), float <<w, bits>> (the    *)
(*   finite float of width w with these IEEE-754 bytes), str text, arr of   *)
(*   values, obj: the entries <<key, value>> in map order.                  *)

JNull == [k |-> "null", v |-> <<>>]

JBool(b) == [k |-> "bool", v |-> b]

JNum(n) == [k |-> "num", v |-> n]

JBig(t, bs) == [k |-> "bignum", v |-> <<as_u8(t)>> \o bs]

JFloat(w, bits) == [k |-> "float", v |-> <<w>> \o bits]

JStr(text) == [k |-> "str", v |-> text]

JArr(xs) == [k |-> "arr", v |-> xs]

JObj(entries) == [k |-> "obj", v |-> entries]

\* IndexMap::insert / Map::insert: a present key keeps its place and takes the value
MapInsert(entries, key, value) ==
    IF \E i \in 1..Len(entries) : entries[i][1] = key
    THEN [i \in 1..Len(entries) |->
            IF entries[i][1] = key THEN <<key, value>> ELSE entries[i]]
    ELSE Append(entries, <<key, value>>)

\* IndexMap::get
MapGet(entries, key) ==
    LET hits == {i \in 1..Len(entries) : entries[i][1] = key}
    IN  IF hits = {} THEN None ELSE Some(entries[CHOOSE i \in hits : TRUE][2])

\* "oid"
OidKey == <<111, 105, 100>>

\* The decimal digits of n >= 0, as text
RECURSIVE Digits(_)
Digits(n) == IF n < 10 THEN <<48 + n>> ELSE Digits(n \div 10) \o <<48 + (n % 10)>>

\* format!("{:0w$}", n)
RECURSIVE Padded(_, _)
Padded(text, w) == IF Len(text) >= w THEN text ELSE Padded(<<48>> \o text, w)

----------------------------------------------------------------------------
(* Library collaborators, by what they compute: bs58::encode,               *)
(* String::from_utf8, rust_decimal's deserialize and to_string.             *)

Base58Alphabet ==
    <<49, 50, 51, 52, 53, 54, 55, 56, 57, 65, 66, 67, 68, 69, 70, 71, 72, 74, 75, 76,
      77, 78, 80, 81, 82, 83, 84, 85, 86, 87, 88, 89, 90, 97, 98, 99, 100, 101, 102,
      103, 104, 105, 106, 107, 109, 110, 111, 112, 113, 114, 115, 116, 117, 118, 119,
      120, 121, 122>>

\* Long division of a big-endian base-256 number by 58: [q, r]
RECURSIVE DivMod58(_, _, _)
DivMod58(bs, rem, q) ==
    IF bs = <<>> THEN [q |-> q, r |-> rem]
    ELSE LET cur == rem * 256 + Head(bs)
         IN  DivMod58(Tail(bs), cur % 58, Append(q, cur \div 58))

RECURSIVE Base58Digits(_)
Base58Digits(bs) ==
    IF \A i \in 1..Len(bs) : bs[i] = 0 THEN <<>>
    ELSE LET dm == DivMod58(bs, 0, <<>>)
         IN  Append(Base58Digits(dm.q), Base58Alphabet[dm.r + 1])

RECURSIVE LeadingZeros(_)
LeadingZeros(bs) ==
    IF bs = <<>> \/ Head(bs) # 0 THEN <<>> ELSE <<49>> \o LeadingZeros(Tail(bs))

\* bs58::encode(bytes).into_string()
bs58_encode(bs) == LeadingZeros(bs) \o Base58Digits(bs)

Utf8Cont(b) == b \in 128..191

\* The bytes that follow a leading byte b in one character (0: b leads nothing)
Utf8Width(b) ==
    IF b < 128 THEN 1 ELSE IF b \in 194..223 THEN 2 ELSE IF b \in 224..239 THEN 3
    ELSE IF b \in 240..244 THEN 4 ELSE 0

\* The range of the second byte of the character led by b
Utf8Second(b) ==
    IF b = 224 THEN 160..191 ELSE IF b = 237 THEN 128..159
    ELSE IF b = 240 THEN 144..191 ELSE IF b = 244 THEN 128..143 ELSE 128..191

\* core::str::from_utf8's validation: the text starts with a leading byte, and
\* every leading byte is followed by exactly the continuation bytes of its
\* character
Utf8Valid(bs) ==
    /\ bs # <<>> => ~Utf8Cont(bs[1])
    /\ \A i \in 1..Len(bs) :
          ~Utf8Cont(bs[i]) =>
              LET w == Utf8Width(bs[i])
              IN  /\ w > 0
                  /\ i + w - 1 <= Len(bs)
                  /\ w >= 2 => bs[i + 1] \in Utf8Second(bs[i])
                  /\ \A j \in (i + 2)..(i + w - 1) : Utf8Cont(bs[j])
                  /\ i + w <= Len(bs) => ~Utf8Cont(bs[i + w])

\* Decimal::to_string of a non-negative-zero decimal whose mantissa is lo
Decimal_to_string(neg, scale, lo) ==
    LET ds == Padded(Digits(lo), scale + 1)
        n == Len(ds)
        body == IF scale = 0 THEN ds
                ELSE SubSeq(ds, 1, n - scale) \o <<46>> \o SubSeq(ds, n - scale + 1, n)
    IN  (IF neg THEN <<45>> ELSE <<>>) \o body

\* Decimal::deserialize(bytes).to_string().  The flags are masked with
\* 0x801F_0000.  Mantissas of 2^24 and more, scales above 28 (which are
\* rescaled) and negative zero are given as text that keeps the masked bytes.
Decimal_text(bs) ==
    LET scale == bs[3] % 32
        neg == bs[4] >= 128
        mant == SubSeq(bs, 5, 16)
    IN  IF HighZero(mant, 3) /\ scale <= 28 /\ ~(neg /\ HighZero(mant, 0))
        THEN Decimal_to_string(neg, scale, from_le_unsigned(SubSeq(mant, 1, 3)))
        ELSE <<35, scale, IF neg THEN 45 ELSE 43>> \o mant

----------------------------------------------------------------------------
(* spud_decoder/decode_object.rs: DecoderObject.  A decoder d is the record *)
(* [contents, index, field_names, current_byte, current_field]; a step's    *)
(* outcome is [st, d, v, steps]: the status, the decoder afterwards, the    *)
(* value returned (or the error) and what the step left in *next_steps.     *)

DOk(d, v, steps) == [st |-> "ok", d |-> d, v |-> v, steps |-> steps]

DErr(d, kind) == [st |-> "err", d |-> d, v |-> kind, steps |-> 0]

DPanic(d, why) == [st |-> "panic", d |-> d, v |-> why, steps |-> 0]

\* DecoderObject::new
DecoderObject_new(contents, fns) ==
    [contents |-> contents, index |-> 0, field_names |-> fns, current_byte |-> 0,
     current_field |-> <<>>]

\* contents.get(i) == Some(&byte)
GetIs(contents, i, byte) == i < Len(contents) /\ At(contents, i) = byte

\* DecoderObject::next
next(d, steps) ==
    IF d.index + steps >= Len(d.contents)
    THEN DErr(d, "DecodingError: Index out of bounds")
    ELSE DOk([d EXCEPT !.index = @ + steps,
                       !.current_byte = At(d.contents, d.index + steps)], <<>>, 0)

\* DecoderObject::read_bytes: the slice is taken before next() checks the bound
read_bytes(d, steps) ==
    IF d.index + steps > Len(d.contents)
    THEN DPanic(d, "range end index out of range for slice")
    ELSE LET res == SubSeq(d.contents, d.index + 1, d.index + steps)
             moved == next(d, steps)
         IN  IF moved.st = "ok" THEN DOk(moved.d, res, 0) ELSE moved

\* DecoderObject::read_field_name
read_field_name(d) ==
    LET moved == next(d, 1)
    IN  IF moved.st # "ok" THEN moved
        ELSE LET field_name_id == At(moved.d.contents, moved.d.index)
                 name == MapGet(moved.d.field_names, field_name_id)
             IN  IF IsSome(name)
                 THEN DOk([moved.d EXCEPT !.current_field = name[1]], <<>>, 1)
                 ELSE DErr(moved.d, "DecodingError: Field name ID not found in field names map")

\* DecoderObject::read_variable_length_data: the length, as a usize
read_variable_length_data(d) ==
    LET m1 == next(d, 1)
    IN  IF m1.st # "ok" THEN m1
        ELSE LET b == m1.d.current_byte
                 w == IF b = as_u8("U8") THEN 1 ELSE IF b = as_u8("U16") THEN 2
                      ELSE IF b = as_u8("U32") THEN 4 ELSE IF b = as_u8("U64") THEN 8
                      ELSE 0
             IN  IF w = 0
                 THEN DErr(m1.d, "DecodingError: Expected: U8, U16, U32, U64, but got an unknown token")
                 ELSE LET m2 == next(m1.d, 1)
                      IN  IF m2.st # "ok" THEN m2
                          ELSE LET rb == read_bytes(m2.d, w)
                               IN  IF rb.st # "ok" THEN rb
                                   ELSE DOk(rb.d, rb.v \o [i \in 1..(8 - w) |-> 0], 0)

\* The slice contents[index..index + n] for a usize n: Some(bytes), or None
\* where the range lies outside contents and the indexing panics
SliceFrom(d, n) ==
    IF ~SmallUnsigned(n) THEN None
    ELSE LET len == from_le_unsigned(SubSeq(n, 1, 3))
         IN  IF d.index + len > Len(d.contents) THEN None
             ELSE Some(SubSeq(d.contents, d.index + 1, d.index + len))

\* Date::new with check_validity
Date_new(year, month, day) ==
    IF month \notin 1..12 THEN Err("ValidationError: The month must be between 1 and 12")
    ELSE LET max_days ==
                 IF month \in {1, 3, 5, 7, 8, 10, 12} THEN 31
                 ELSE IF month \in {4, 6, 9, 11} THEN 30
                 ELSE IF (year % 4 = 0 /\ year % 100 # 0) \/ year % 400 = 0 THEN 29
                 ELSE 28
         IN  IF day \notin 1..max_days THEN Err("ValidationError: Invalid day")
             ELSE Ok([k |-> "Date", year |-> year, month |-> month, day |-> day])

\* Time::new; the nanosecond field comes as its 4 little-endian bytes
Time_new(hour, minute, second, nanos) ==
    IF hour > 23 THEN Err("ValidationError: Hour must be between 0 and 23")
    ELSE IF minute > 59 THEN Err("ValidationError: Minute must be between 0 and 59")
    ELSE IF second > 59 THEN Err("ValidationError: Second must be between 0 and 59")
    ELSE IF nanos[4] >= 64 \/ from_le_unsigned(nanos) >= 1000000000
    THEN Err("ValidationError: Nanosecond must be less than 1 billion")
    ELSE Ok([k |-> "Time", hour |-> hour, minute |-> minute, second |-> second,
             nanosecond |-> from_le_unsigned(nanos)])

\* DecoderObject::read_date
read_date(bs) == Date_new(from_le_unsigned(SubSeq(bs, 1, 2)), bs[3], bs[4])

\* DecoderObject::read_time
read_time(bs) == Time_new(bs[1], bs[2], bs[3], SubSeq(bs, 4, 7))

\* impl Display for Date
Date_to_string(date) ==
    Padded(Digits(date.year), 4) \o <<45>> \o Padded(Digits(date.month), 2)
        \o <<45>> \o Padded(Digits(date.day), 2)

\* impl Display for Time
Time_to_string(time) ==
    Padded(Digits(time.hour), 2) \o <<58>> \o Padded(Digits(time.minute), 2)
        \o <<58>> \o Padded(Digits(time.second), 2)
        \o (IF time.nanosecond = 0 THEN <<>>
            ELSE <<46>> \o Padded(Digits(time.nanosecond), 9))

----------------------------------------------------------------------------
(* spud_decoder/decoder_functions: one decoder per value kind *)

\* null
null(d) == DOk(d, JNull, 1)

\* bool
bool(d) ==
    LET m == next(d, 1)
    IN  IF m.st # "ok" THEN m
        ELSE IF At(m.d.contents, m.d.index) = 0 THEN DOk(m.d, JBool(FALSE), 1)
        ELSE IF At(m.d.contents, m.d.index) = 1 THEN DOk(m.d, JBool(TRUE), 1)
        ELSE DErr(m.d, "DecodingError: Unknown bool value")

\* Number::from(<int>::from_le_bytes(..)) and Number::from_f64(..)
NumberOf(number_type, bs) ==
    IF number_type \in {"U8", "U16", "U32", "U64", "U128"}
    THEN IF SmallUnsigned(bs)
         THEN Some(JNum(from_le_unsigned(SubSeq(bs, 1, IF Len(bs) < 3 THEN Len(bs) ELSE 3))))
         ELSE Some(JBig(number_type, bs))
    ELSE IF number_type \in {"I8", "I16", "I32", "I64", "I128"}
    THEN IF SmallSigned(bs) THEN Some(JNum(from_le_signed(bs)))
         ELSE Some(JBig(number_type, bs))
    ELSE IF number_type = "F32"
    THEN IF bs[4] % 128 = 127 /\ bs[3] >= 128 THEN None ELSE Some(JFloat(4, bs))
    ELSE IF bs[8] % 128 = 127 /\ bs[7] >= 240 THEN None ELSE Some(JFloat(8, bs))

\* number
number(d, number_type) ==
    LET m == next(d, 1)
    IN  IF m.st # "ok" THEN m
        ELSE LET rb == read_bytes(m.d, NumberWidth(number_type))
             IN  IF rb.st # "ok" THEN rb
                 ELSE LET n == NumberOf(number_type, rb.v)
                      IN  IF IsSome(n) THEN DOk(rb.d, n[1], 0)
                          ELSE DErr(rb.d, "DecodingError: Invalid float value: cannot be NaN or infinity")

\* decimal
decimal(d) ==
    LET m == next(d, 1)
    IN  IF m.st # "ok" THEN m
        ELSE LET rb == read_bytes(m.d, 16)
             IN  IF rb.st # "ok" THEN rb
                 ELSE DOk(rb.d, JStr(Decimal_text(rb.v)), 0)

\* string
string(d) ==
    LET len == read_variable_length_data(d)
    IN  IF len.st # "ok" THEN len
        ELSE LET bytes == SliceFrom(len.d, len.v)
             IN  IF ~IsSome(bytes) THEN DPanic(len.d, "range end index out of range for slice")
                 ELSE IF ~Utf8Valid(bytes[1]) THEN DErr(len.d, "FromUtf8Error")
                 ELSE DOk(len.d, JStr(bytes[1]), Len(bytes[1]))

\* binary_blob
binary_blob(d) ==
    LET len == read_variable_length_data(d)
    IN  IF len.st # "ok" THEN len
        ELSE LET bytes == SliceFrom(len.d, len.v)
             IN  IF ~IsSome(bytes) THEN DPanic(len.d, "range end index out of range for slice")
                 ELSE DOk(len.d, JArr([i \in 1..Len(bytes[1]) |-> JNum(bytes[1][i])]),
                          Len(bytes[1]))

\* date
date(d) ==
    LET m == next(d, 1)
    IN  IF m.st # "ok" THEN m
        ELSE LET rb == read_bytes(m.d, 4)
             IN  IF rb.st # "ok" THEN rb
                 ELSE LET dt == read_date(rb.v)
                      IN  IF dt.st # "ok" THEN DErr(rb.d, dt.v)
                          ELSE DOk(rb.d, JStr(Date_to_string(dt.v)), 0)

\* time
time(d) ==
    LET m == next(d, 1)
    IN  IF m.st # "ok" THEN m
        ELSE LET rb == read_bytes(m.d, 7)
             IN  IF rb.st # "ok" THEN rb
                 ELSE LET tm == read_time(rb.v)
                      IN  IF tm.st # "ok" THEN DErr(rb.d, tm.v)
                          ELSE DOk(rb.d, JStr(Time_to_string(tm.v)), 0)

\* date_time
date_time(d) ==
    LET m == next(d, 1)
    IN  IF m.st # "ok" THEN m
        ELSE LET rb == read_bytes(m.d, 11)
             IN  IF rb.st # "ok" THEN rb
                 ELSE LET dt == read_date(SubSeq(rb.v, 1, 4))
                          tm == read_time(SubSeq(rb.v, 5, 11))
                      IN  IF dt.st # "ok" THEN DErr(rb.d, dt.v)
                          ELSE IF tm.st # "ok" THEN DErr(rb.d, tm.v)
                          ELSE DOk(rb.d, JStr(Date_to_string(dt.v) \o <<32>>
                                                \o Time_to_string(tm.v)), 0)

RECURSIVE decode_byte(_, _)
RECURSIVE ArrayLoop(_, _)
RECURSIVE ObjectLoop(_, _)

\* array_start, `if let Some(value) = decoded_byte { output_array.push(value) }`
\* and the next turn of the loop
ArrayPush(decoded_byte, output_array) ==
    IF decoded_byte.st # "ok" THEN decoded_byte
    ELSE ArrayLoop(decoded_byte.d,
                   IF IsSome(decoded_byte.v) THEN Append(output_array, decoded_byte.v[1])
                   ELSE output_array)

\* the loop of array_start: until the cursor is on ArrayEnd
ArrayLoop(d, output_array) ==
    IF from_u8(At(d.contents, d.index)) = Some("ArrayEnd")
    THEN DOk(d, JArr(output_array), 1)
    ELSE ArrayPush(decode_byte(d, At(d.contents, d.index)), output_array)

\* array_start
array_start(d) ==
    LET m == next(d, 1)
    IN  IF m.st # "ok" THEN m ELSE ArrayLoop(m.d, <<>>)

\* object_start, `if let Some(value) = decoded_byte { output_object.insert(..) }`
\* and the next turn of the loop
ObjectInsert(decoded_byte, output_object) ==
    IF decoded_byte.st # "ok" THEN decoded_byte
    ELSE ObjectLoop(decoded_byte.d,
                    IF IsSome(decoded_byte.v)
                    THEN MapInsert(output_object, decoded_byte.d.current_field,
                                   decoded_byte.v[1])
                    ELSE output_object)

\* the loop of object_start: until the cursor is on two ObjectEnd bytes
ObjectLoop(d, output_object) ==
    IF GetIs(d.contents, d.index, as_u8("ObjectEnd"))
        /\ GetIs(d.contents, d.index + 1, as_u8("ObjectEnd"))
    THEN DOk(d, JObj(output_object), 2)
    ELSE ObjectInsert(decode_byte(d, At(d.contents, d.index)), output_object)

\* object_start after its loop: decoder.current_field = parent_field
ObjectClose(looped, parent_field) ==
    IF looped.st # "ok" THEN looped
    ELSE [looped EXCEPT !.d.current_field = parent_field]

\* object_start
object_start(d) ==
    LET m == next(d, 2)
    IN  IF m.st # "ok" THEN m
        ELSE LET id_bytes == read_bytes(m.d, 10)
             IN  IF id_bytes.st # "ok" THEN id_bytes
                 ELSE ObjectClose(
                          ObjectLoop(id_bytes.d,
                                     <<<<OidKey, JStr(bs58_encode(id_bytes.v))>>>>),
                          id_bytes.d.current_field)

\* the match of decode_byte on the decoded tag
DecodeValue(d, decode_result, byte) ==
    LET t == IF IsSome(decode_result) THEN decode_result[1] ELSE "none"
    IN  CASE t = "Null" -> null(d)
          [] t = "Bool" -> bool(d)
          [] t \in SpudNumberTypes -> number(d, t)
          [] t = "Decimal" -> decimal(d)
          [] t = "String" -> string(d)
          [] t = "Date" -> date(d)
          [] t = "Time" -> time(d)
          [] t = "DateTime" -> date_time(d)
          [] t = "BinaryBlob" -> binary_blob(d)
          [] t = "ArrayStart" -> array_start(d)
          [] t = "ObjectStart" -> object_start(d)
          [] OTHER -> DErr(d, "DecodingError: Unknown type")

\* decode_byte, `self.next(next_steps)?` and the Option<Value> returned
Stepped(m, v) == IF m.st # "ok" THEN m ELSE DOk(m.d, v, 0)

\* decode_byte, the FieldNameId branch after read_field_name()
AfterFieldName(named) ==
    IF named.st # "ok" THEN named ELSE Stepped(next(named.d, named.steps), None)

\* decode_byte, the value branch after the match
AfterValue(return_value) ==
    IF return_value.st # "ok" THEN return_value
    ELSE Stepped(next(return_value.d, return_value.steps), Some(return_value.v))

\* DecoderObject::decode_byte: v is the Option<Value> returned
decode_byte(d, byte) ==
    IF from_u8(byte) = Some("FieldNameId")
    THEN AfterFieldName(read_field_name(d))
    ELSE AfterValue(DecodeValue(d, from_u8(byte), byte))

RECURSIVE RootLoop(_, _)
\* DecoderObject::decode, `if let Some(value) = field_value { object.insert(..) }`
\* and the next turn of the loop
RootInsert(field_value, object) ==
    IF field_value.st # "ok" THEN field_value
    ELSE RootLoop(field_value.d,
                  IF IsSome(field_value.v)
                  THEN MapInsert(object, field_value.d.current_field, field_value.v[1])
                  ELSE object)

\* the while loop of DecoderObject::decode
RootLoop(d, object) ==
    IF ~(d.index < Len(d.contents)) THEN DOk(d, object, 0)
    ELSE IF d.current_byte = as_u8("ObjectEnd") THEN DOk(d, object, 0)
    ELSE RootInsert(decode_byte(d, d.current_byte), object)

\* DecoderObject::decode: one step past the first marker, then ten bytes
DecoderObject_decode(d) ==
    LET m == next(d, 1)
    IN  IF m.st # "ok" THEN m
        ELSE LET id == read_bytes(m.d, 10)
             IN  IF id.st # "ok" THEN id
                 ELSE RootLoop(id.d, <<<<OidKey, JStr(bs58_encode(id.v))>>>>)

----------------------------------------------------------------------------
(* spud_decoder/decoder.rs: SpudDecoder *)

\* Iterator::position of the first byte equal to x: Some(0-based index) or None
Position(bs, x) ==
    LET hits == {i \in 1..Len(bs) : bs[i] = x}
    IN  IF hits = {} THEN None
        ELSE Some((CHOOSE i \in hits : \A j \in hits : i <= j) - 1)

\* the loop of SpudDecoder::new over field_names_bytes; indexing out of the
\* slice panics
RECURSIVE HeaderLoop(_, _, _)
HeaderLoop(field_names_bytes, cursor, fns) ==
    LET n == Len(field_names_bytes)
    IN  IF cursor >= n THEN Panic("index out of bounds: field name length")
        ELSE LET field_name_length == At(field_names_bytes, cursor)
                 c1 == cursor + 1
                 c2 == c1 + field_name_length
             IN  IF c2 > n THEN Panic("index out of bounds: field name byte")
                 ELSE IF c2 >= n THEN Panic("index out of bounds: field id")
                 ELSE LET field_name == SubSeq(field_names_bytes, c1 + 1, c2)
                          field_id == At(field_names_bytes, c2)
                          c3 == c2 + 1
                      IN  IF ~Utf8Valid(field_name) THEN Err("FromUtf8Error")
                          ELSE IF c3 >= n THEN Panic("index out of bounds: list end")
                          ELSE IF At(field_names_bytes, c3) = as_u8("FieldNameListEnd")
                          THEN Ok(MapInsert(fns, field_id, field_name))
                          ELSE HeaderLoop(field_names_bytes, c3,
                                          MapInsert(fns, field_id, field_name))

\* SpudDecoder::new: split_at panics when the file is shorter than the version
SpudDecoder_new(file) ==
    LET spud_version_len == Len(SPUD_VERSION)
    IN  IF Len(file) < spud_version_len THEN Panic("split_at: mid > len")
        ELSE LET file_version == SubSeq(file, 1, spud_version_len)
                 rest == SubSeq(file, spud_version_len + 1, Len(file))
                 index == Position(rest, as_u8("FieldNameListEnd"))
             IN  IF file_version # SPUD_VERSION
                 THEN Err("DecodingError: Invalid SPUD file: version mismatch")
                 ELSE IF ~IsSome(index)
                 THEN Err("DecodingError: Invalid SPUD file: missing field name list end byte")
                 ELSE LET fns == HeaderLoop(SubSeq(rest, 1, index[1] + 1), 0, <<>>)
                      IN  IF fns.st # "ok" THEN fns
                          ELSE Ok([file_contents |-> SubSeq(rest, index[1] + 2, Len(rest)),
                                   field_names |-> fns.v])

\* contents.get(j) and contents.get(j + 1) are both the marker
Doubled(contents, j, marker) ==
    GetIs(contents, j, as_u8(marker)) /\ GetIs(contents, j + 1, as_u8(marker))

\* The first position from j on that holds one of the doubled markers, which
\* is where a scan that steps over every other byte one at a time arrives
\* (the length of contents when there is none)
NextDoubled(contents, j, markers) ==
    LET hits == {k \in j..(Len(contents) - 1) :
                    \E marker \in markers : Doubled(contents, k, marker)}
    IN  IF hits = {} THEN Len(contents)
        ELSE CHOOSE k \in hits : \A other \in hits : k <= other

\* the inner scan of decode_objects from j with the depth so far: `end`
\* (0 when the scan runs off the contents)
RECURSIVE FindEnd(_, _, _)
FindEnd(contents, j, depth) ==
    IF j >= Len(contents) THEN 0
    ELSE IF Doubled(contents, j, "ObjectStart")
    THEN FindEnd(contents, j + 2, depth + 1)
    ELSE IF Doubled(contents, j, "ObjectEnd")
    THEN IF depth - 1 = 0 THEN j + 2 ELSE FindEnd(contents, j + 2, depth - 1)
    ELSE FindEnd(contents, NextDoubled(contents, j + 1, {"ObjectStart", "ObjectEnd"}),
                 depth)

RECURSIVE decode_objects(_, _, _, _)
\* decode_objects, `decoded_objects.push(decoder.decode()?); i = end;`
PushDecoded(decoded, file_contents, fns, end, decoded_objects) ==
    IF decoded.st = "panic" THEN Panic(decoded.v)
    ELSE IF decoded.st = "err" THEN Err(decoded.v)
    ELSE decode_objects(file_contents, fns, end, Append(decoded_objects, JObj(decoded.v)))

\* decode_objects, the root found at start with its `end`
DecodeRoot(file_contents, fns, start, end, decoded_objects) ==
    IF end > start
    THEN PushDecoded(
             DecoderObject_decode(
                 DecoderObject_new(SubSeq(file_contents, start + 1, end), fns)),
             file_contents, fns, end, decoded_objects)
    ELSE decode_objects(file_contents, fns, start + 1, decoded_objects)

\* SpudDecoder::decode_objects: the outer scan from i
decode_objects(file_contents, fns, i, decoded_objects) ==
    IF ~(i < Len(file_contents)) THEN Ok(decoded_objects)
    ELSE IF Doubled(file_contents, i, "ObjectStart")
    THEN DecodeRoot(file_contents, fns, i, FindEnd(file_contents, i, 0), decoded_objects)
    ELSE decode_objects(file_contents, fns,
                        NextDoubled(file_contents, i + 1, {"ObjectStart"}),
                        decoded_objects)

\* serde_json::to_string and to_string_pretty: the text is the compact or
\* the indented rendering of the value, kept as the value and the choice
to_string(value) == [json |-> value, indent |-> FALSE]

to_string_pretty(value) == [json |-> value, indent |-> TRUE]

\* A choice of output that wraps the objects in an array whatever their number
always_array(decoded, pretty, want_array) ==
    IF decoded.st # "ok" THEN decoded
    ELSE Ok(to_string(JArr(decoded.v)))

\* SpudDecoder::decode after decode_objects()?: one object alone is written
\* as it is unless an array is wanted, else the array of them
OutputJson(decoded, pretty, want_array) ==
    IF decoded.st # "ok" THEN decoded
    ELSE IF Len(decoded.v) = 1 /\ ~want_array
    THEN IF pretty THEN Ok(to_string_pretty(decoded.v[1])) ELSE Ok(to_string(decoded.v[1]))
    ELSE IF pretty THEN Ok(to_string_pretty(JArr(decoded.v)))
    ELSE Ok(to_string(JArr(decoded.v)))

\* SpudDecoder::decode
SpudDecoder_decode(dec, pretty, want_array) ==
    OutputJson(decode_objects(dec.file_contents, dec.field_names, 0, <<>>),
               pretty, want_array)

----------------------------------------------------------------------------
(* The scenario: one thread builds a tree with SpudBuilderSync, encodes it, *)
(* and hands the bytes to SpudDecoder.                                      *)

\* Bounds of the scenario
MaxCalls == 3

MaxDepth == 2

\* Inputs of the scenario
NameA == <<97>>

NameAB == <<97, 98>>

LongName == [i \in 1..256 |-> 120]

FieldNames == {NameA, NameAB, LongName}

NullValue == [k |-> "Null"]

Palette == {NullValue, [k |-> "U8", n |-> 7]}

\* The bytes getrandom may deliver (a sample of 2..255 plus the reserved 0)
RandomBytes == {0, 2, 19}

\* The bytes the draw that ends generate_u8_id may deliver: the free ones of
\* the sample; the lowest free byte when the sample has none left; and any
\* byte when no byte is free (no draw ends the recursion)
FinalDraws(seen) ==
    IF RandomBytes \ seen # {} THEN RandomBytes \ seen
    ELSE IF Byte \ seen # {}
    THEN {CHOOSE id \in Byte \ seen : \A other \in Byte \ seen : id <= other}
    ELSE {0}

\* SystemTime::now() as seconds since the epoch, or a clock set before it
Timestamps == {1700000000, BeforeEpoch}

\* COUNTER_SEED: its third byte is 0, the Null tag, or the ObjectEnd tag
CounterSeeds == {5, 196608 + 5, 1245184 + 5}

InstanceIds == {<<171, 205, 239>>}

NoOutcome == [st |-> "none", v |-> <<>>]

NoValue == [k |-> "none"]

\* The shared resources of the builder, as one record, and their update
B ==
    [data |-> data, field_names |-> field_names, seen_ids |-> seen_ids,
     objects |-> objects, counter |-> counter]

SetB(b) ==
    /\ data' = b.data
    /\ field_names' = b.field_names
    /\ seen_ids' = b.seen_ids
    /\ objects' = b.objects
    /\ counter' = b.counter

\* The calls made so far that are not callback returns
CallCount == Cardinality({i \in 1..Len(calls) : calls[i].op # "return"})

Call(op, obj, name, value, at, end, ok) ==
    [op |-> op, obj |-> obj, name |-> name, value |-> value, at |-> at, end |-> end,
     ok |-> ok]

InitBuilder(seeds) ==
    /\ pc = "build"
    /\ \E seed \in seeds :
          /\ data = SpudBuilderSync_new(seed).data
          /\ field_names = SpudBuilderSync_new(seed).field_names
          /\ seen_ids = SpudBuilderSync_new(seed).seen_ids
          /\ objects = SpudBuilderSync_new(seed).objects
          /\ counter = SpudBuilderSync_new(seed).counter
    /\ instance \in InstanceIds
    /\ stack = <<>>
    /\ calls = <<>>
    /\ out = <<>>
    /\ decoder = NoOutcome
    /\ result = NoOutcome
    /\ probe = <<>>
    /\ probed = <<>>

Init == InitBuilder(CounterSeeds)

\* SpudBuilderSync::object up to the call of the callback f: new_object()?
BuilderObject(timestamp_secs) ==
    /\ pc = "build"
    /\ stack = <<>>
    /\ CallCount < MaxCalls
    /\ LET made == SpudObjectSync_new(B, 0, timestamp_secs, instance)
           ok == made.st = "ok"
           obj == IF ok THEN Len(made.b.objects) ELSE 0
       IN  /\ SetB(made.b)
           /\ stack' = IF ok THEN <<[obj |-> obj, at |-> Len(data)]>> ELSE stack
           /\ calls' = Append(calls, Call("builder_object", obj, <<>>, NoValue, Len(data),
                                          Len(made.b.data), ok))
    /\ UNCHANGED <<pc, instance, decoderVars, probeVars>>

\* SpudObjectSync::add_value, called by the running callback on its object
AddValue(field_name, value, drawn) ==
    /\ pc = "build"
    /\ stack # <<>>
    /\ CallCount < MaxCalls
    /\ LET added == add_value(B, field_name, value, drawn)
           ok == added.st = "ok"
           after == IF ok THEN added.v ELSE B
       IN  /\ SetB(after)
           /\ calls' = Append(calls, Call("add_value", stack[Len(stack)].obj, field_name,
                                          value, Len(data), Len(after.data), ok))
           /\ pc' = IF added.st = "hang" THEN "hung" ELSE pc
    /\ UNCHANGED <<stack, instance, decoderVars, probeVars>>

\* SpudObjectSync::object up to the call of the callback f:
\* add_field_name(field_name)?; new_object()?
ObjectObject(field_name, timestamp_secs, drawn) ==
    /\ pc = "build"
    /\ stack # <<>>
    /\ Len(stack) < MaxDepth
    /\ CallCount < MaxCalls
    /\ LET named == add_field_name(B, field_name, drawn)
           made == IF named.st = "ok"
                   THEN SpudObjectSync_new(named.v, stack[Len(stack)].obj,
                                           timestamp_secs, instance)
                   ELSE [st |-> named.st, v |-> named.v, b |-> B]
           ok == made.st = "ok"
           obj == IF ok THEN Len(made.b.objects) ELSE 0
       IN  /\ SetB(made.b)
           /\ stack' = IF ok THEN Append(stack, [obj |-> obj, at |-> Len(data)])
                       ELSE stack
           /\ calls' = Append(calls, Call("object", obj, field_name, NoValue, Len(data),
                                          Len(made.b.data), ok))
           /\ pc' = IF made.st = "hang" THEN "hung" ELSE pc
    /\ UNCHANGED <<instance, decoderVars, probeVars>>

\* The callback of the innermost object() call returns: `f(..)?`, then the
\* end markers
CallbackReturn(callback_ok) ==
    /\ pc = "build"
    /\ stack # <<>>
    /\ LET after == object_return(B, callback_ok)
       IN  /\ SetB(after)
           /\ calls' = Append(calls, Call("return", stack[Len(stack)].obj, <<>>, NoValue,
                                          Len(data), Len(after.data), callback_ok))
    /\ stack' = SubSeq(stack, 1, Len(stack) - 1)
    /\ UNCHANGED <<pc, instance, decoderVars, probeVars>>

\* SpudBuilderSync::encode
Encode ==
    /\ pc = "build"
    /\ stack = <<>>
    /\ LET encoded == SpudBuilderSync_encode(B)
       IN  /\ SetB(encoded.b)
           /\ out' = encoded.v
    /\ pc' = "encoded"
    /\ UNCHANGED <<stack, instance, calls, decoder, result, probeVars>>

\* SpudDecoder::new(&encoded_bytes)
DecoderNew ==
    /\ pc = "encoded"
    /\ decoder' = SpudDecoder_new(out)
    /\ pc' = "loaded"
    /\ UNCHANGED <<builderVars, out, result, probeVars>>

\* decoder.decode(pretty, want_array)
Decode(pretty, want_array) ==
    /\ pc = "loaded"
    /\ decoder.st = "ok"
    /\ result' = SpudDecoder_decode(decoder.v, pretty, want_array)
    /\ pc' = "decoded"
    /\ UNCHANGED <<builderVars, out, decoder, probeVars>>

Next ==
    \/ \E ts \in Timestamps : BuilderObject(ts)
    \/ \E name \in FieldNames, value \in Palette, id \in FinalDraws(seen_ids) :
          AddValue(name, value, id)
    \/ \E name \in FieldNames, ts \in Timestamps, id \in FinalDraws(seen_ids) :
          ObjectObject(name, ts, id)
    \/ \E ok \in BOOLEAN : CallbackReturn(ok)
    \/ Encode
    \/ DecoderNew
    \/ \E pretty \in BOOLEAN, want_array \in BOOLEAN : Decode(pretty, want_array)

Spec == Init /\ [][Next]_vars

----------------------------------------------------------------------------
(* The round trip of one value: one root object with one field is built,    *)
(* encoded, loaded and decoded, for a value of every kind.                  *)

U8Value(n) == [k |-> "U8", n |-> n]

StringValue(s) == [k |-> "String", s |-> s]

ArrayValue(xs) == [k |-> "Array", xs |-> xs]

DateValue == [k |-> "Date", year |-> 2023, month |-> 3, day |-> 14]

TimeValue(ns) == [k |-> "Time", hour |-> 12, minute |-> 30, second |-> 45, nanosecond |-> ns]

ScalarValues ==
    {NullValue, [k |-> "Bool", b |-> TRUE], [k |-> "Bool", b |-> FALSE],
     [k |-> "I8", n |-> -1], [k |-> "I16", n |-> -300], [k |-> "I32", n |-> 70000],
     [k |-> "I64", n |-> -70000], [k |-> "I128", n |-> 1],
     U8Value(7), [k |-> "U16", n |-> 300], [k |-> "U32", n |-> 70000],
     [k |-> "U64", n |-> 1], [k |-> "U128", n |-> 1],
     [k |-> "F32", bits |-> <<0, 0, 128, 63>>],
     [k |-> "F64", bits |-> <<0, 0, 0, 0, 0, 0, 240, 63>>],
     [k |-> "Decimal", neg |-> FALSE, scale |-> 1, lo |-> 1],
     [k |-> "Decimal", neg |-> TRUE, scale |-> 2, lo |-> 1234],
     StringValue(<<>>), StringValue(<<83, 112, 117, 100>>),
     StringValue([i \in 1..256 |-> 120]),
     [k |-> "BinaryBlob", s |-> <<0, 1, 255>>],
     DateValue, TimeValue(0), TimeValue(123456789),
     [k |-> "DateTime", date |-> DateValue, time |-> TimeValue(123456789)]}

ArrayValues ==
    {ArrayValue(<<>>), ArrayValue(<<U8Value(1), U8Value(2), U8Value(3)>>),
     ArrayValue(<<U8Value(1), U8Value(1)>>),
     ArrayValue(<<NullValue, NullValue>>),
     ArrayValue(<<StringValue(<<97>>), StringValue(<<97>>)>>),
     ArrayValue(<<[k |-> "U128", n |-> 1]>>),
     ArrayValue(<<ArrayValue(<<U8Value(1)>>), ArrayValue(<<>>)>>)}

AllValues == ScalarValues \cup ArrayValues

ValueNames == {NameA, NameAB}

InitValues == InitBuilder(CounterSeeds)

NextValues ==
    \/ calls = <<>> /\ \E ts \in Timestamps \ {BeforeEpoch} : BuilderObject(ts)
    \/ \E name \in ValueNames, value \in AllValues, id \in FinalDraws(seen_ids) :
          Len(calls) = 1 /\ AddValue(name, value, id)
    \/ Len(calls) = 2 /\ CallbackReturn(TRUE)
    \/ Len(calls) = 3 /\ Encode
    \/ DecoderNew
    \/ Decode(FALSE, FALSE)

SpecValues == InitValues /\ [][NextValues]_vars

\* The load and decode of the encoded bytes have run to their outcome
Finished == pc = "decoded" \/ (pc = "loaded" /\ decoder.st # "ok")

\* The JSON rendering of a value: numbers by value, text by content, decimals,
\* dates and times by their display text, blobs as arrays of byte numbers
RECURSIVE Rendering(_)
Rendering(value) ==
    CASE value.k = "Null" -> JNull
      [] value.k = "Bool" -> JBool(value.b)
      [] value.k \in IntegerTypes -> JNum(value.n)
      [] value.k = "F32" -> JFloat(4, value.bits)
      [] value.k = "F64" -> JFloat(8, value.bits)
      [] value.k = "Decimal" -> JStr(Decimal_to_string(value.neg, value.scale, value.lo))
      [] value.k = "String" -> JStr(value.s)
      [] value.k = "BinaryBlob" -> JArr([i \in 1..Len(value.s) |-> JNum(value.s[i])])
      [] value.k = "Date" -> JStr(Date_to_string(value))
      [] value.k = "Time" -> JStr(Time_to_string(value))
      [] value.k = "DateTime" ->
            JStr(Date_to_string(value.date) \o <<32>> \o Time_to_string(value.time))
      [] value.k = "Array" -> JArr([i \in 1..Len(value.xs) |-> Rendering(value.xs[i])])

\* The add_value calls of the history
AddValueCalls == {i \in 1..Len(calls) : calls[i].op = "add_value"}

\* The decode returned one object that has `value` under `name`
DecodedField(name, value) ==
    /\ decoder.st = "ok"
    /\ result.st = "ok"
    /\ result.v.json.k = "obj"
    /\ MapGet(result.v.json.v, name) = Some(value)

\* C1: for a value of every supported kind, one root object with one field
\* (name, value), encoded, loaded and decoded with decode(false, false), yields
\* Ok and one object whose entry for name is the JSON rendering of the value.
C1_RoundTrip ==
    Finished =>
        \A i \in AddValueCalls : DecodedField(calls[i].name, Rendering(calls[i].value))

\* Where the body (the builder's buffer) begins in the bytes encode returned
BodyOffset == Len(SPUD_VERSION) + Len(HeaderEntries(field_names)) + 1

\* The buffer bytes at..end-1 that a call wrote, read from the buffer while the
\* tree is built and from the encoded bytes afterwards
Written(at, end) ==
    IF pc = "build" THEN SubSeq(data, at + 1, end)
    ELSE SubSeq(out, BodyOffset + at + 1, BodyOffset + end)

\* The ids the registry records for a name
RegistryIds(name) ==
    {field_names[i].id : i \in {j \in 1..Len(field_names) : field_names[j].name = name}}

\* The array layout: the start tag, the tokens of the elements, the end tag
ArrayLayout(xs) ==
    <<16>> \o Concat([j \in 1..Len(xs) |-> write_spud_bytes(xs[j], <<>>)]) \o <<17>>

\* C10: the array written for xs is [0x10], the tokens of xs in order, [0x11],
\* and decoding it yields an array of as many elements as xs whose i-th element
\* is the rendering of xs[i].
C10_ArrayRoundTrip ==
    Finished =>
        \A i \in AddValueCalls :
            calls[i].value.k = "Array" =>
                /\ Written(calls[i].at + 2, calls[i].end) = ArrayLayout(calls[i].value.xs)
                /\ decoder.st = "ok"
                /\ result.st = "ok"
                /\ result.v.json.k = "obj"
                /\ \E entry \in {MapGet(result.v.json.v, calls[i].name)} :
                      /\ IsSome(entry)
                      /\ entry[1].k = "arr"
                      /\ Len(entry[1].v) = Len(calls[i].value.xs)
                      /\ \A j \in 1..Len(calls[i].value.xs) :
                            entry[1].v[j] = Rendering(calls[i].value.xs[j])

\* C7: adding a null value appends, after the field-name token, exactly one
\* byte, the null tag 0x03.
C7_NullIsOneByte ==
    \A i \in AddValueCalls :
        (calls[i].ok /\ calls[i].value.k = "Null") =>
            Written(calls[i].at + 2, calls[i].end) = <<3>>

\* The calls that wrote a field token: add_value, and object on an object,
\* unless the name was refused
TokenCalls ==
    {i \in 1..Len(calls) :
        calls[i].op \in {"add_value", "object"} /\ calls[i].end > calls[i].at}

\* C5: every field token emitted for a field name, in the root object or in a
\* nested one, carries the one id that the registry records for the name, and
\* that registry is the one written to the header.
C5_FieldIdStable ==
    /\ \A i \in TokenCalls :
          \E id \in RegistryIds(calls[i].name) :
             /\ RegistryIds(calls[i].name) = {id}
             /\ Written(calls[i].at, calls[i].at + 2) = <<2, id>>
    /\ pc # "build" =>
          SubSeq(out, 1, BodyOffset)
              = SPUD_VERSION \o HeaderEntries(field_names) \o <<1>>

\* C5 witness: a name was given to two calls, one of them in a nested object,
\* and the tree was encoded
C5_Witness ==
    /\ pc = "encoded"
    /\ \E i, j \in TokenCalls :
          /\ i < j
          /\ calls[i].name = calls[j].name
          /\ calls[j].op = "add_value"
          /\ calls[j].obj # calls[i].obj

\* The bytes the layout gives to one call of the history
LayoutOf(call) ==
    LET id == CHOOSE x \in RegistryIds(call.name) : TRUE
    IN  CASE call.op = "builder_object" -> <<18, 18>> \o objects[call.obj].oid
          [] call.op = "object" -> <<2, id, 18, 18>> \o objects[call.obj].oid
          [] call.op = "add_value" -> <<2, id>> \o write_spud_bytes(call.value, <<>>)
          [] call.op = "return" -> <<19, 19>>

\* The calls that make up the tree: every call but the refused ones
TreeCalls == SelectSeq(calls, LAMBDA call : call.op = "return" \/ call.ok)

\* C2: in the body of the encoded stream every object is [0x12][0x12], its 10
\* id bytes, its field tokens in the order they were added, [0x13][0x13]; a
\* field token is [0x02][id][value bytes], and a nested object is the value of
\* the token that introduced it.  (Stated for the trees in which no call was
\* refused; the body is read from its first byte on.)
C2_ObjectLayout ==
    (pc = "encoded" /\ \A i \in 1..Len(calls) : calls[i].op # "return" => calls[i].ok) =>
        LET layout == Concat([i \in 1..Len(TreeCalls) |-> LayoutOf(TreeCalls[i])])
        IN  SubSeq(out, BodyOffset + 1, BodyOffset + Len(layout)) = layout

----------------------------------------------------------------------------
(* Files: SpudDecoder::new takes any bytes.  The files tried are what the   *)
(* header writer returns for a registry and a body, whole, cut short, or    *)
(* with one byte changed.                                                   *)

\* A registry entry as add_field_name inserts it
Entry(name, id) == [name |-> name, len |-> Len(name), id |-> id]

Registries ==
    {<<>>, <<Entry(NameA, 2)>>, <<Entry(NameAB, 2)>>,
     <<Entry(NameAB, 2), Entry(NameA, 19)>>,
     <<Entry(NameAB, 2), Entry(<<99, 100, 101>>, 200)>>,
     <<Entry(NameAB, 2), Entry(OidKey, 200)>>}

\* An object id without marker bytes
PlainOid == <<0, 241, 83, 101, 171, 205, 239, 5, 0, 3>>

\* A root object of one u8 field that never reaches its doubled end marker
OpenRoot == <<18, 18>> \o PlainOid \o <<2, 2, 9, 7>>

\* A root object of one u8 field
ClosedRoot == <<18, 18>> \o PlainOid \o <<2, 2, 9, 7, 19, 19>>

\* Bodies in which a root object never reaches its doubled end marker: alone,
\* and followed by a well-formed root object
UnfinishedBodies == {OpenRoot, OpenRoot \o ClosedRoot}

\* Bodies in which the object decoder fails: an i32 cut to one byte; a string
\* whose length prefix is larger than what remains; an array with no end tag
BrokenBodies ==
    {<<18, 18>> \o PlainOid \o <<2, 2, 7, 1, 19, 19>>,
     <<18, 18>> \o PlainOid \o <<2, 2, 15, 9, 200, 97, 19, 19>>,
     <<18, 18>> \o PlainOid \o <<2, 2, 16, 9, 7, 19, 19>>}

\* Bodies in which a single marker byte stands where a tag is expected,
\* followed by one more token: an end marker in a root object, a start marker
\* in a root object, an end marker in a nested object
SingleMarkerBodies ==
    {<<18, 18>> \o PlainOid \o <<2, 2, 9, 7, 19, 2, 200, 9, 8, 19, 19>>,
     <<18, 18>> \o PlainOid \o <<2, 2, 9, 7, 18, 2, 200, 9, 8, 19, 19>>,
     <<18, 18>> \o PlainOid \o <<2, 2, 18, 18>> \o PlainOid
         \o <<2, 200, 9, 7, 19, 2, 200, 9, 8, 19, 19, 19, 19>>}

\* The id of a nested object
NestedOid == <<0, 241, 83, 101, 171, 205, 239, 5, 0, 4>>

\* A root object whose field 2 is a nested object with one u8 field, 200
OidFieldBody ==
    <<18, 18>> \o PlainOid \o <<2, 2, 18, 18>> \o NestedOid
        \o <<2, 200, 9, 7, 19, 19, 19, 19>>

\* Bodies: none; an object with a u8 field; one with a bool field (a 0x01
\* byte); doubled markers around nothing; and the malformed ones
Bodies ==
    {<<>>,
     ClosedRoot,
     <<18, 18>> \o PlainOid \o <<2, 2, 4, 1, 19, 19>>,
     <<18, 18, 19, 19>>,
     OidFieldBody}
       \cup UnfinishedBodies \cup BrokenBodies \cup SingleMarkerBodies

\* The positions of a file at which one byte is changed (0: none)
FlipAt == {0, 1, 10}

\* The first `cut` bytes of a file, with the byte at `flip` changed
Damaged(file, cut, flip) ==
    [i \in 1..cut |-> IF i = flip THEN (file[i] + 1) % 256 ELSE file[i]]

InitIdle ==
    /\ data = <<>>
    /\ field_names = <<>>
    /\ seen_ids = {0, 1}
    /\ objects = <<>>
    /\ counter = 0
    /\ instance \in InstanceIds
    /\ stack = <<>>
    /\ calls = <<>>
    /\ out = <<>>
    /\ decoder = NoOutcome
    /\ result = NoOutcome
    /\ probed = <<>>

InitWire ==
    /\ InitIdle
    /\ pc = "wire"
    /\ probe \in [fns : Registries, body : Bodies]

\* initialise_header(field_names, data): the file is what the writer returns
WriteHeader ==
    /\ pc = "wire"
    /\ out' = initialise_header(probe.fns, probe.body)
    /\ probed' = "written"
    /\ pc' = "encoded"
    /\ UNCHANGED <<builderVars, decoder, result, probe>>

\* The file is a damaged copy of what the writer returns
DamagedFile(cut, flip) ==
    /\ pc = "wire"
    /\ cut <= Len(initialise_header(probe.fns, probe.body))
    /\ flip <= cut
    /\ out' = Damaged(initialise_header(probe.fns, probe.body), cut, flip)
    /\ probed' = "damaged"
    /\ pc' = "encoded"
    /\ UNCHANGED <<builderVars, decoder, result, probe>>

\* The longest file tried
MaxFile == 64

NextWire ==
    \/ WriteHeader
    \/ \E cut \in 0..MaxFile, flip \in FlipAt : DamagedFile(cut, flip)
    \/ DecoderNew
    \/ \E pretty \in BOOLEAN, want_array \in BOOLEAN : Decode(pretty, want_array)

SpecWire == InitWire /\ [][NextWire]_vars

\* The entries of the decoder's map, and of a registry, as id-name pairs
MapPairs(entries) == {entries[i] : i \in 1..Len(entries)}

RegistryPairs(fns) == {<<fns[i].id, fns[i].name>> : i \in 1..Len(fns)}

\* C3: for every registry (the empty one and one-byte names included) and
\* every body, SpudDecoder::new on the header writer's output returns Ok, with
\* a map that sends each registered id to its name and holds nothing else, and
\* with the bytes after the list-end tag the writer wrote as the body.
C3_HeaderRoundTrip ==
    (pc = "loaded" /\ probed = "written") =>
        /\ decoder.st = "ok"
        /\ MapPairs(decoder.v.field_names) = RegistryPairs(probe.fns)
        /\ decoder.v.file_contents
              = SubSeq(out, Len(SPUD_VERSION) + Len(HeaderEntries(probe.fns)) + 2,
                       Len(out))

\* The leading bytes of the file are the version string
HasVersion(file) ==
    /\ Len(file) >= Len(SPUD_VERSION)
    /\ SubSeq(file, 1, Len(SPUD_VERSION)) = SPUD_VERSION

\* C4: SpudDecoder::new returns the version-mismatch decoding error for every
\* input whose leading bytes are not the version string, the inputs shorter
\* than the version string included; no other error, and no abort.
C4_VersionGate ==
    (pc = "loaded" /\ ~HasVersion(out)) =>
        decoder = Err("DecodingError: Invalid SPUD file: version mismatch")

\* C6: for every byte string given to SpudDecoder::new and then to decode,
\* the outcome is Ok or an error returned to the caller, never an abort.
C6_DecoderNeverAborts == decoder.st # "panic" /\ result.st # "panic"

----------------------------------------------------------------------------
(* Probes of the pure functions of spud_types.rs and add_value_len.rs *)

InitTags ==
    /\ InitIdle
    /\ pc = "probe"
    /\ probe \in [of : {"byte"}, v : Byte] \cup [of : {"tag"}, v : SpudTypes]

\* SpudTypes::from_u8(probe) for a byte
ProbeByte ==
    /\ pc = "probe"
    /\ probe.of = "byte"
    /\ probed' = from_u8(probe.v)
    /\ pc' = "byte_probed"
    /\ UNCHANGED <<builderVars, decoderVars, probe>>

\* SpudTypes::from_u8(probe.as_u8()) for a tag
ProbeTag ==
    /\ pc = "probe"
    /\ probe.of = "tag"
    /\ probed' = from_u8(as_u8(probe.v))
    /\ pc' = "tag_probed"
    /\ UNCHANGED <<builderVars, decoderVars, probe>>

NextTags == ProbeByte \/ ProbeTag

SpecTags == InitTags /\ [][NextTags]_vars

\* C8: from_u8 is defined for all 256 bytes, is None for every byte that is
\* no tag code, and from_u8(as_u8(t)) = Some(t) for every tag t, I128 and
\* U128 included.
C8_FromU8Inverse ==
    /\ pc = "byte_probed" =>
          IF \E t \in SpudTypes : as_u8(t) = probe.v
          THEN \E t \in SpudTypes : as_u8(t) = probe.v /\ probed = Some(t)
          ELSE probed = None
    /\ pc = "tag_probed" => probed = Some(probe.v)

\* The bytes a probed length is made of
LenDigits == {0, 1, 255}

InitLen ==
    /\ InitIdle
    /\ pc = "probe"
    /\ probe \in [1..8 -> LenDigits]

\* add_value_length(&mut data, probe) on an empty buffer
ProbeLength ==
    /\ pc = "probe"
    /\ probed' = add_value_length(<<>>, probe)
    /\ pc' = "length_probed"
    /\ UNCHANGED <<builderVars, decoderVars, probe>>

NextLen == ProbeLength

SpecLen == InitLen /\ [][NextLen]_vars

\* The widths a length can be written in, and their tags
LengthWidths == {1, 2, 4, 8}

LengthTag(w) == IF w = 1 THEN 9 ELSE IF w = 2 THEN 10 ELSE IF w = 4 THEN 11 ELSE 12

\* C9: add_value_length writes the tag of the narrowest width w of 1, 2, 4, 8
\* bytes with n < 256^w (0x09, 0x0A, 0x0B, 0x0C), then n in exactly w
\* little-endian bytes.
C9_NarrowestLength ==
    pc = "length_probed" =>
        \E w \in LengthWidths :
            /\ HighZero(probe, w)
            /\ \A v \in LengthWidths : v < w => ~HighZero(probe, v)
            /\ probed = <<LengthTag(w)>> \o SubSeq(probe, 1, w)

\* C9 witness: 256 was probed and took the 2-byte tag
C9_Witness ==
    /\ pc = "length_probed"
    /\ probe = <<0, 1, 0, 0, 0, 0, 0, 0>>
    /\ probed = <<10, 0, 1>>

----------------------------------------------------------------------------
\* C11: the stream the header writer returns is the version string, then
\* [name_length][name bytes][id] for each registry entry in insertion order,
\* then one 0x01 byte, then the body bytes; nothing follows the body.
C11_HeaderStream ==
    (pc = "encoded" /\ probed = "written") =>
        out = SPUD_VERSION \o HeaderEntries(probe.fns) \o <<1>> \o probe.body


\* C12: the doubled end marker is written only by encode: whenever the last
\* call made is the Ok return of an object's callback and encode has not run,
\* the buffer ends where it ended before that return (with the bytes of the
\* last value added), not with 0x13 0x13.
C12_EndMarkerAtFlush ==
    (pc = "build" /\ calls # <<>> /\ calls[Len(calls)].op = "return"
        /\ calls[Len(calls)].ok) =>
        /\ Len(data) = calls[Len(calls)].at
        /\ SubSeq(data, Len(data) - 1, Len(data)) # <<19, 19>>

\* C13: encode does not rewind, clear or rewrite the shared buffer: the buffer
\* just before encode is a prefix of the buffer just after it, and the bytes
\* encode adds are object end markers only.
C13_EncodeAppendsOnly ==
    [][(pc = "build" /\ pc' = "encoded") =>
          /\ Len(data') >= Len(data)
          /\ SubSeq(data', 1, Len(data)) = data
          /\ \A i \in (Len(data) + 1)..Len(data') : data'[i] = as_u8("ObjectEnd")]_vars


\* C17: add_value and object(field_name, callback) called with a field name
\* longer than 255 bytes return an error without panicking, and leave the
\* shared buffer, the field-name registry and the seen-id tracker as they
\* were before the call.
C17_LongNameRejected ==
    [][(Len(calls') = Len(calls) + 1 /\ Len(calls'[Len(calls')].name) > 255) =>
          /\ ~calls'[Len(calls')].ok
          /\ data' = data
          /\ field_names' = field_names
          /\ seen_ids' = seen_ids]_vars

\* C17 witness: after an add_value that registered a name, object(field_name,
\* callback) was called with a name of 256 bytes and returned an error
C17_Witness ==
    \E i, j \in 1..Len(calls) :
        /\ i < j
        /\ calls[i].op = "add_value" /\ calls[i].ok
        /\ calls[j].op = "object" /\ calls[j].name = LongName /\ ~calls[j].ok


\* The JSON value the spec has decode write for the decoded root objects
ExpectedJson(roots, want_array) ==
    IF Len(roots) = 1 /\ ~want_array THEN roots[1] ELSE JArr(roots)

\* decode(pretty, want_array) returned Ok with what the spec has it write
EmitsExpected(decoded, outcome, pretty, want_array) ==
    outcome.st = "ok" =>
        /\ outcome.v.json = ExpectedJson(decoded.v, want_array)
        /\ outcome.v.indent = pretty

\* C14: decode(pretty, want_array) writes the single object itself exactly
\* when one root object was found and want_array is false, and in every other
\* case (no root, two or more roots, want_array true) the JSON array of all
\* decoded objects in stream order; pretty changes the whitespace only.
C14_OutputShape ==
    [][\A pretty \in BOOLEAN, want_array \in BOOLEAN :
          Decode(pretty, want_array) =>
              EmitsExpected(
                  decode_objects(decoder.v.file_contents, decoder.v.field_names, 0, <<>>),
                  result', pretty, want_array)]_vars

\* C14 witness: two root objects were decoded and written as an array of two
C14_Witness ==
    /\ pc = "decoded"
    /\ result.st = "ok"
    /\ result.v.json.k = "arr"
    /\ Len(result.v.json.v) = 2
    /\ Cardinality({i \in 1..Len(calls) : calls[i].op = "builder_object"}) = 2


\* C15: decode returns Ok only when every root object of the body was parsed
\* completely: when a root object fails inside the object decoder or never
\* reaches its closing doubled end marker, decode returns an error instead of
\* skipping that object and returning the others.
C15_NoPartialSuccess ==
    (pc = "decoded" /\ probed = "written"
        /\ probe.body \in UnfinishedBodies \cup BrokenBodies) =>
        result.st = "err"

\* C16: a stream in which a single object-start or object-end byte stands
\* where a tag is expected is rejected with a decoding error, in a root object
\* as well as in a nested one; decode never returns Ok with an object that
\* lacks the tokens after the single marker.
C16_SingleMarkerRejected ==
    (pc = "decoded" /\ probed = "written" /\ probe.body \in SingleMarkerBodies) =>
        result.st = "err"


----------------------------------------------------------------------------
(* Exhaustion of the ids: a builder whose running root callback has added   *)
(* a null under a fresh name until all, or all but a few, of the 254 usable *)
(* ids are assigned.                                                        *)

\* The ids still free when the scenario starts
FreeIdSets == {{}, {200}, {7, 200}}

\* The name that was given the id (two ASCII letters)
IdName(id) == <<65 + (id \div 16), 65 + (id % 16)>>

\* Names not in the registry
NewNames == {<<110, 49>>, <<110, 50>>}

\* The i-th of the usable ids 2..255 that are not free, in ascending order
NthUsed(free, i) ==
    CHOOSE id \in (2..255) \ free : id - 1 - Cardinality({f \in free : f < id}) = i

\* The four bytes add_value(name, ()) writes for a name with this id
NullToken(id) == write_spud_bytes(NullValue, <<as_u8("FieldNameId"), id>>)

\* The builder after object() has made the root object and its callback has
\* called add_value(IdName(id), ()) for each usable id that is not free, each
\* call drawing that id
Exhausted(seed, free, instance_bytes) ==
    LET oid == ObjectId_new(1700000000, instance_bytes, seed).v
        n == 254 - Cardinality(free)
    IN  [data |-> <<as_u8("ObjectStart"), as_u8("ObjectStart")>> \o oid
                    \o [k \in 1..(4 * n) |->
                           NullToken(NthUsed(free, ((k - 1) \div 4) + 1))[((k - 1) % 4) + 1]],
         field_names |-> [i \in 1..n |-> Entry(IdName(NthUsed(free, i)), NthUsed(free, i))],
         seen_ids |-> (0..255) \ free,
         objects |-> <<[oid |-> oid, parent |-> 0]>>,
         counter |-> fetch_add(seed)]

InitIds ==
    /\ pc = "build"
    /\ instance \in InstanceIds
    /\ \E seed \in CounterSeeds, free \in FreeIdSets :
          /\ data = Exhausted(seed, free, instance).data
          /\ field_names = Exhausted(seed, free, instance).field_names
          /\ seen_ids = Exhausted(seed, free, instance).seen_ids
          /\ objects = Exhausted(seed, free, instance).objects
          /\ counter = Exhausted(seed, free, instance).counter
    /\ stack = <<[obj |-> 1, at |-> 0]>>
    /\ calls = <<>>
    /\ out = <<>>
    /\ decoder = NoOutcome
    /\ result = NoOutcome
    /\ probe = <<>>
    /\ probed = <<>>

NextIds ==
    \/ \E name \in NewNames \cup {IdName(2), LongName}, id \in FinalDraws(seen_ids) :
          AddValue(name, NullValue, id)
    \/ \E ok \in BOOLEAN : CallbackReturn(ok)

SpecIds == InitIds /\ [][NextIds]_vars

\* C18: when all 254 usable ids are assigned, add_value with a name that is
\* not in the registry terminates and returns an error: no call of the id
\* allocator retries forever or overflows the stack.
C18_AllocatorTerminates == pc # "hung"


----------------------------------------------------------------------------
(* Identities: threads of one process call ObjectId::new within one second. *)
(* probe[t] is where thread t is in its call and the counter value it got;  *)
(* probed counts the calls that got a counter value and remembers the ids   *)
(* of those that were made one by one.                                      *)

Threads == {1, 2}

\* The ids remembered at most, and the runs of calls made at most
MaxIds == 3

MaxBursts == 2

\* The number of counter values a 24-bit counter has (the mask 0x00FF_FFFF)
CounterValues == 16777216

\* COUNTER_SEED: a low value, and the last value before the 24 bits wrap
OidSeeds == {5, CounterValues - 1}

\* The second in which all the calls are made
SameSecond == 1700000000

\* Runs of calls whose ids are not remembered
BurstSizes == {1, CounterValues - 2}

InitOid ==
    /\ pc = "ids"
    /\ data = <<>>
    /\ field_names = <<>>
    /\ seen_ids = {0, 1}
    /\ objects = <<>>
    /\ counter \in OidSeeds
    /\ instance \in InstanceIds
    /\ stack = <<>>
    /\ calls = <<>>
    /\ out = <<>>
    /\ decoder = NoOutcome
    /\ result = NoOutcome
    /\ probe = [t \in Threads |-> [at |-> "idle", count_val |-> 0]]
    /\ probed = [made |-> 0, bursts |-> 0, issued |-> <<>>]

\* ObjectId::new, thread t: SystemTime::now().duration_since(UNIX_EPOCH)
ReadClock(t) ==
    /\ pc = "ids"
    /\ probe[t].at = "idle"
    /\ Len(probed.issued) + Cardinality({u \in Threads : probe[u].at # "idle"}) < MaxIds
    /\ probe' = [probe EXCEPT ![t].at = "clocked"]
    /\ UNCHANGED <<pc, builderVars, decoderVars, probed>>

\* ObjectId::new, thread t: ID_COUNTER.fetch_add(1, Ordering::Relaxed)
FetchAdd(t) ==
    /\ pc = "ids"
    /\ probe[t].at = "clocked"
    /\ probe' = [probe EXCEPT ![t] = [at |-> "counted", count_val |-> counter]]
    /\ counter' = fetch_add(counter)
    /\ probed' = [probed EXCEPT !.made = @ + 1]
    /\ UNCHANGED <<pc, data, field_names, seen_ids, objects, stack, instance, calls,
                   decoderVars>>

\* ObjectId::new, thread t: the bytes are put together and returned; n is the
\* counter value the call got
ReturnId(t) ==
    /\ pc = "ids"
    /\ probe[t].at = "counted"
    /\ probed' = [probed EXCEPT
                    !.issued = Append(@, [id |-> ObjectId_new(SameSecond, instance,
                                                              probe[t].count_val).v,
                                          n |-> probe[t].count_val, by |-> t])]
    /\ probe' = [probe EXCEPT ![t].at = "idle"]
    /\ UNCHANGED <<pc, builderVars, decoderVars>>

\* k calls of ObjectId::new in a row, from start to return, by any threads
\* that are not in a call; their ids are not remembered
Burst(k) ==
    /\ pc = "ids"
    /\ probed.bursts < MaxBursts
    /\ counter' = counter + k
    /\ probed' = [probed EXCEPT !.made = @ + k, !.bursts = @ + 1]
    /\ UNCHANGED <<pc, data, field_names, seen_ids, objects, stack, instance, calls,
                   decoderVars, probe>>

NextOid ==
    \/ \E t \in Threads : ReadClock(t)
    \/ \E t \in Threads : FetchAdd(t)
    \/ \E t \in Threads : ReturnId(t)
    \/ \E k \in BurstSizes : Burst(k)

SpecOid == InitOid /\ [][NextOid]_vars


\* Two remembered calls, the later one fewer than `within` calls after the
\* earlier one, returned different values of 10 bytes
DistinctWithin(within) ==
    \A i, j \in 1..Len(probed.issued) :
        (i # j /\ probed.issued[j].n >= probed.issued[i].n
             /\ probed.issued[j].n - probed.issued[i].n < within) =>
            /\ probed.issued[i].id # probed.issued[j].id
            /\ Len(probed.issued[i].id) = 10

\* C19 as stated: for every N, N calls of ObjectId::new made within one
\* second, from one thread or from several, return N pairwise distinct
\* 10-byte values.
C19_AlwaysDistinct == pc = "ids" => DistinctWithin(2 * CounterValues)

\* C19 amended: the same for every N up to 2^24, the number of values of the
\* 24-bit counter: any two calls fewer than 2^24 calls apart return different
\* values.
C19_DistinctUpToWrap == pc = "ids" => DistinctWithin(CounterValues)

\* C19 witness: two threads each returned an id, the second 2^24 - 1 calls
\* after the first, across the wrap of the 24 bits
C19_Witness ==
    /\ pc = "ids"
    /\ \E i, j \in 1..Len(probed.issued) :
          /\ probed.issued[i].by # probed.issued[j].by
          /\ probed.issued[j].n - probed.issued[i].n = CounterValues - 1
          /\ probed.issued[i].n < CounterValues
          /\ probed.issued[j].n >= CounterValues

-----------------------------------------------------------------------------
\* Parsing text into an ObjectId

\* The index of a character in the base58 alphabet, counted from 0; -1 when
\* the character is not in it
Base58Index(c) ==
    IF \E i \in 1..Len(Base58Alphabet) : Base58Alphabet[i] = c
    THEN (CHOOSE i \in 1..Len(Base58Alphabet) : Base58Alphabet[i] = c) - 1
    ELSE -1

\* bs * 58 + carry for a big-endian base-256 number without leading zeros
RECURSIVE MulAdd58(_, _)
MulAdd58(bs, carry) ==
    IF bs = <<>>
    THEN IF carry = 0 THEN <<>>
         ELSE Append(MulAdd58(<<>>, carry \div 256), carry % 256)
    ELSE LET cur == bs[Len(bs)] * 58 + carry
         IN  Append(MulAdd58(SubSeq(bs, 1, Len(bs) - 1), cur \div 256), cur % 256)

RECURSIVE Base58Number(_, _)
Base58Number(text, bs) ==
    IF text = <<>> THEN bs
    ELSE Base58Number(Tail(text), MulAdd58(bs, Base58Index(Head(text))))

RECURSIVE LeadingOnes(_)
LeadingOnes(text) ==
    IF text = <<>> \/ Head(text) # 49 THEN <<>> ELSE <<0>> \o LeadingOnes(Tail(text))

\* bs58::decode(text).into_vec(): a character outside the alphabet is an
\* error; every leading '1' stands for one zero byte
bs58_decode(text) ==
    IF \E i \in 1..Len(text) : Base58Index(text[i]) = -1
    THEN Err("bs58 decode")
    ELSE Ok(LeadingOnes(text) \o Base58Number(text, <<>>))

\* <ObjectId as TryFrom<&str>>::try_from(s)
ObjectId_try_from_str(s) ==
    LET decoded == bs58_decode(s)
    IN  IF decoded.st = "err" THEN Err("ValidationError: Failed to decode base58")
        ELSE IF Len(decoded.v) # 10 THEN Err("ValidationError: Invalid ObjectId length")
        ELSE Ok(decoded.v)

\* <ObjectId as TryFrom<String>>::try_from(s)
ObjectId_try_from_String(s) ==
    LET decoded == bs58_decode(s)
    IN  IF decoded.st = "err" THEN Err("ValidationError: Failed to decode base58")
        ELSE IF Len(decoded.v) # 10 THEN Err("ValidationError: Invalid ObjectId length")
        ELSE Ok(decoded.v)

\* <ObjectId as TryFrom<SpudString>>::try_from(value): copy_from_slice
\* panics unless the source slice is as long as the 10-byte destination
ObjectId_try_from_SpudString(value) ==
    LET decoded == bs58_decode(value)
    IN  IF decoded.st = "err" THEN Err("ValidationError: Failed to decode base58")
        ELSE IF Len(decoded.v) # 10
             THEN Panic("copy_from_slice: source slice length does not match destination slice length")
        ELSE Ok(decoded.v)

\* Byte strings whose base58 text is parsed: of 0, 1, 2, 9, 10 and 11 bytes
ParsedBytes ==
    { <<>>, <<0>>, <<0, 0>>, <<1>>, <<255>>, <<1, 2>>,
      SubSeq(PlainOid, 1, 9), PlainOid, Append(PlainOid, 7),
      [i \in 1..9 |-> 255], [i \in 1..10 |-> 0], [i \in 1..10 |-> 255],
      [i \in 1..11 |-> 0] }

\* Characters outside the base58 alphabet: 0 I O l _ and the space
InvalidChars == {48, 73, 79, 108, 95, 32}

\* The texts parsed: base58 texts, and texts with one invalid character
Texts ==
    {bs58_encode(bs) : bs \in ParsedBytes}
        \cup {Append(bs58_encode(bs), c) : bs \in {<<>>, PlainOid}, c \in InvalidChars}
        \cup {<<c>> \o bs58_encode(PlainOid) : c \in InvalidChars}

InitParse ==
    /\ InitIdle
    /\ pc = "parse"
    /\ probe \in Texts

\* ObjectId::try_from(probe) with probe a &str
ParseStr ==
    /\ pc = "parse"
    /\ probed' = [via |-> "&str", r |-> ObjectId_try_from_str(probe)]
    /\ pc' = "parsed"
    /\ UNCHANGED <<builderVars, decoderVars, probe>>

\* ObjectId::try_from(probe) with probe a String
ParseString ==
    /\ pc = "parse"
    /\ probed' = [via |-> "String", r |-> ObjectId_try_from_String(probe)]
    /\ pc' = "parsed"
    /\ UNCHANGED <<builderVars, decoderVars, probe>>

\* ObjectId::try_from(SpudString::from(probe))
ParseSpudString ==
    /\ pc = "parse"
    /\ probed' = [via |-> "SpudString", r |-> ObjectId_try_from_SpudString(probe)]
    /\ pc' = "parsed"
    /\ UNCHANGED <<builderVars, decoderVars, probe>>

NextParse == ParseStr \/ ParseString \/ ParseSpudString

SpecParse == InitParse /\ [][NextParse]_vars

\* The text is no base58 text, or base58 text of other than 10 bytes
NotAnObjectId(text) ==
    \/ \E i \in 1..Len(text) : \A k \in 1..Len(Base58Alphabet) : Base58Alphabet[k] # text[i]
    \/ \A bs \in ParsedBytes : bs58_encode(bs) = text => Len(bs) # 10

\* C20: parsing a text that is not valid base58, or whose base58 decoding is
\* not exactly 10 bytes long, returns an error and never panics, from &str,
\* from String and from SpudString alike.
C20_ParseErrorNeverPanic ==
    (pc = "parsed" /\ NotAnObjectId(probe)) => probed.r.st = "err"

-----------------------------------------------------------------------------
\* The root objects decode returned: the object itself, or the items of the array
RootsOf(json) == IF json.k = "arr" THEN json.v ELSE <<json>>

\* Bodies of one well-formed root object with the id PlainOid
OneRootBodies == {ClosedRoot, <<18, 18>> \o PlainOid \o <<2, 2, 4, 1, 19, 19>>}

\* The entries of a root object slice read as its layout says: "oid" is the
\* base58 text of the ten bytes after the two start markers, and the tokens
\* are dispatched from the byte after them
EntriesByLayout(slice, fns) ==
    RootLoop([DecoderObject_new(slice, fns) EXCEPT
                  !.index = 12, !.current_byte = At(slice, 12)],
             <<<<OidKey, JStr(bs58_encode(SubSeq(slice, 3, 12)))>>>>)

\* C24: when a root object slice [0x12][0x12][id0 .. id9][tokens][0x13][0x13]
\* is decoded, the value stored under "oid" is the base58 text of exactly the
\* ten bytes id0 .. id9, and the first byte dispatched as a tag is the byte
\* that follows id9, so the object holds "oid" and the fields of its tokens.
C24_RootOidAligned ==
    (pc = "decoded" /\ probed = "written" /\ probe.body \in OneRootBodies
        /\ result.st = "ok") =>
        /\ Len(RootsOf(result.v.json)) = 1
        /\ MapGet(RootsOf(result.v.json)[1].v, OidKey) = Some(JStr(bs58_encode(PlainOid)))
        /\ RootsOf(result.v.json)[1].v =
               EntriesByLayout(probe.body, decoder.v.field_names).v


\* C30: in every object the decoder produces, root or nested, the entry under
\* "oid" is the base58 text of that object's own identity bytes, also when
\* the encoded object has a user field named "oid": here the nested object
\* under "ab", whose field 200 is registered with the name "oid".
C30_OidIsIdentity ==
    (pc = "decoded" /\ probed = "written" /\ probe.body = OidFieldBody
        /\ MapGet(decoder.v.field_names, 200) = Some(OidKey)
        /\ result.st = "ok") =>
        \E ab \in {MapGet(RootsOf(result.v.json)[1].v, NameAB)} :
            /\ IsSome(ab)
            /\ ab[1].k = "obj"
            /\ MapGet(ab[1].v, OidKey) = Some(JStr(bs58_encode(NestedOid)))


\* The call of object that the return at r of the history answers
OpeningCall(r) ==
    CHOOSE k \in 1..r :
        calls[k].op \in {"builder_object", "object"} /\ calls[k].ok
            /\ calls[k].obj = calls[r].obj

\* C29: whenever a call of object, for a root or for a nested object, has
\* returned, with Ok or with the callback's error, the bytes that call
\* appended to the shared buffer hold one closing doubled end marker for every
\* doubled start marker it wrote, in the buffer and in what encode returns.
C29_ReturnedObjectClosed ==
    \A r \in 1..Len(calls) :
        calls[r].op = "return" =>
            Cardinality({i \in OpeningCall(r)..r :
                            calls[i].op \in {"builder_object", "object"} /\ calls[i].ok})
              = Cardinality({i \in OpeningCall(r)..r :
                                calls[i].op = "return"
                                    /\ Written(calls[i].at, calls[i].end) = <<19, 19>>})


\* The registry and the tracker agree
RegistrySound ==
    /\ \A i \in 1..Len(field_names) :
          /\ field_names[i].id \in 2..255
          /\ field_names[i].id \in seen_ids
          /\ \A j \in 1..Len(field_names) :
                field_names[j].id = field_names[i].id => j = i
    /\ {0, 1} \subseteq seen_ids

\* C25: after any sequence of builder operations every id in the field-name
\* registry lies in 2..=255, no two names share an id, the tracker slot of
\* every registered id is marked used, slots 0 and 1 are marked used, and a
\* slot once marked used is never unmarked.
C25_RegistryInvariant ==
    []RegistrySound /\ [][seen_ids \subseteq seen_ids']_vars

\* C25 witness: two names are registered, one of them by a nested object, and
\* the tree was encoded
C25_Witness ==
    /\ pc = "encoded"
    /\ Len(field_names) = 2
    /\ Cardinality(seen_ids) = 4
    /\ \E i \in 1..Len(calls) : calls[i].op = "object" /\ calls[i].ok


\* SpudDecoder::decode_objects, the scan alone: the <<start, end>> ranges it
\* slices out as root objects, from i on
RECURSIVE RootSlices(_, _, _)
RootSlices(file_contents, i, slices) ==
    IF ~(i < Len(file_contents)) THEN slices
    ELSE IF Doubled(file_contents, i, "ObjectStart")
    THEN LET end == FindEnd(file_contents, i, 0)
         IN  IF end > i
             THEN RootSlices(file_contents, end, Append(slices, <<i, end>>))
             ELSE RootSlices(file_contents, i + 1, slices)
    ELSE RootSlices(file_contents,
                    NextDoubled(file_contents, i + 1, {"ObjectStart"}), slices)

\* The calls of SpudBuilderSync::object in the history, in creation order
RootCalls == SelectSeq(calls, LAMBDA call : call.op = "builder_object")

\* Where the object opened by a call ends: the end of the return that answers it
ReturnEnd(call) ==
    calls[CHOOSE r \in 1..Len(calls) :
              calls[r].op = "return" /\ calls[r].obj = call.obj].end

\* Every call of the history was accepted and every callback returned Ok
AllAccepted == \A i \in 1..Len(calls) : calls[i].ok

\* C23: for every body that is the concatenation of k root objects produced
\* by the encoder, the root scan returns exactly k slices in creation order,
\* the i-th being the byte range of the i-th root object from its first start
\* marker to its last end marker, whatever bytes occur in ids and payloads.
C23_RootScanExact ==
    (pc = "encoded" /\ AllAccepted) =>
        RootSlices(SubSeq(out, BodyOffset + 1, Len(out)), 0, <<>>)
            = [i \in 1..Len(RootCalls) |-> <<RootCalls[i].at, ReturnEnd(RootCalls[i])>>]

-----------------------------------------------------------------------------
(* spud_builder/sync under threads: every `x.lock().unwrap()` of            *)
(* SpudBuilderSync and SpudObjectSync is a step.  A guard that is a         *)
(* temporary of one statement is taken and dropped within the step of that  *)
(* statement; a guard that lives across other locks (the object's mutex     *)
(* during its callback, the registry of objects during the loop of encode,  *)
(* the two arguments of initialise_header, the scrutinee of `if let`) is    *)
(* held from one step to a later one.  The objects are root objects.        *)

\* The mutexes: the three shared resources, the builder's registry of
\* objects, and the mutex around each SpudObjectSync
SharedLocks == {"data", "field_names", "seen_ids"}

ObjectLocks == <<"object1", "object2", "object3">>

\* What a thread runs:
\*   object_add:    builder.object(|o| o.add_value("ab", 7u8))
\*   object_encode: builder.object(|_| builder.encode())
\*   object_object: builder.object(|_| builder.object(|_| Ok(())))
\*   encode:        builder.encode()
Scripts == {"object_add", "object_encode", "object_object", "encode"}

\* SpudObjectSync::new (object.rs 31-46)
NewObjectSteps == <<"new_start", "new_oid", "objects_insert">>

\* add_value with add_field_name (object.rs 88-90, 141-156)
AddValueSteps ==
    <<"lookup", "generate", "generate_drop", "insert", "push_tag", "push_id",
      "write_value">>

\* SpudBuilderSync::encode (builder.rs 149-159)
EncodeSteps ==
    <<"encode_lock_objects", "encode_loop", "header_lock_names", "header_lock_data",
      "header_build", "encode_clear", "encode_extend">>

\* SpudBuilderSync::object around the steps of its callback (builder.rs 106-111)
ObjectSteps(callback) ==
    NewObjectSteps \o <<"lock_object">> \o callback
        \o <<"unlock_object", "push_end", "push_end_last">>

Program(script) ==
    CASE script = "object_add" -> ObjectSteps(AddValueSteps)
      [] script = "object_encode" -> ObjectSteps(EncodeSteps)
      [] script = "object_object" -> ObjectSteps(ObjectSteps(<<>>))
      [] script = "encode" -> EncodeSteps
      [] OTHER -> <<>>

\* The step a thread is at ("none": it has returned, panicked or runs nothing)
Op(t) ==
    IF probe[t].st = "run" /\ probe[t].ip <= Len(Program(probe[t].script))
    THEN Program(probe[t].script)[probe[t].ip]
    ELSE "none"

\* The object whose callback the thread runs innermost (0: none)
TopObject(t) == IF probe[t].objs = <<>> THEN 0 ELSE probe[t].objs[Len(probe[t].objs)]

\* The mutex that the step a thread is at locks ("none": it locks nothing)
Needs(t) ==
    LET op == Op(t)
    IN  CASE op \in {"new_start", "new_oid", "push_tag", "push_id", "write_value",
                     "push_end", "push_end_last", "header_lock_data", "encode_clear",
                     "encode_extend"} -> "data"
          [] op \in {"objects_insert", "encode_lock_objects"} -> "objects"
          [] op \in {"lookup", "insert", "header_lock_names"} -> "field_names"
          [] op = "generate" -> "seen_ids"
          [] op = "lock_object" -> ObjectLocks[TopObject(t)]
          [] op = "encode_loop" ->
                IF probe[t].k <= Len(objects) THEN ObjectLocks[probe[t].k] ELSE "none"
          [] OTHER -> "none"

\* Mutex::lock returns at once: no thread holds the mutex and it is not poisoned
CanLock(l) ==
    l = "none" \/ (l \notin probed.poisoned /\ \A u \in Threads : l \notin probe[u].held)

\* The thread waits in Mutex::lock: another thread holds the mutex, or the
\* thread holds it itself and the build's mutex then blocks
Waits(t) ==
    /\ Needs(t) # "none"
    /\ Needs(t) \notin probed.poisoned
    /\ \/ \E u \in Threads \ {t} : Needs(t) \in probe[u].held
       \/ Needs(t) \in probe[t].held /\ probed.relock = "deadlock"

\* Thread t is at step op and the lock of the step can be taken
AtStep(t, op) == pc = "threads" /\ Op(t) = op /\ CanLock(Needs(t))

\* One write to the buffer, under the data lock, with who wrote it
PushData(t, bytes, part) ==
    /\ data' = data \o bytes
    /\ calls' = Append(calls, [by |-> t, obj |-> TopObject(t), at |-> Len(data),
                               end |-> Len(data) + Len(bytes), part |-> part])

\* The thread goes on to its next step
Advance(t) == probe' = [probe EXCEPT ![t].ip = @ + 1]


\* IndexMap::insert on field_names: a present key keeps its place and takes
\* the new id
FieldNamesInsert(fns, name, id) ==
    IF \E i \in 1..Len(fns) : fns[i].name = name
    THEN [i \in 1..Len(fns) |-> IF fns[i].name = name THEN [fns[i] EXCEPT !.id = id]
                                 ELSE fns[i]]
    ELSE Append(fns, [name |-> name, len |-> Len(name), id |-> id])

\* The builds: the edition decides when the guard in the scrutinee of
\* `if let` is dropped; Mutex::lock on a mutex the thread holds never
\* returns, by blocking or by panicking
Builds == [edition : {"2021", "2024"}, relock : {"deadlock", "panic"}, poisoned : {{}}]

\* What the two threads run ("none": the thread is not started)
ScriptPairs ==
    {<<"object_add", "none">>, <<"object_add", "object_add">>,
     <<"object_add", "encode">>, <<"object_encode", "none">>,
     <<"object_object", "none">>, <<"object_object", "encode">>,
     <<"encode", "none">>, <<"encode", "encode">>}

Idle(script) ==
    [script |-> script, ip |-> 1, st |-> "run", held |-> {}, objs |-> <<>>,
     found |-> FALSE, id |-> 0, k |-> 1, oid |-> <<>>, header |-> <<>>]

InitLocks ==
    /\ pc = "threads"
    /\ data = <<>>
    /\ field_names = <<>>
    /\ seen_ids = {0, 1}
    /\ objects = <<>>
    /\ counter = 5
    /\ instance \in InstanceIds
    /\ stack = <<>>
    /\ calls = <<>>
    /\ out = <<>>
    /\ decoder = NoOutcome
    /\ result = NoOutcome
    /\ probe \in {[t \in Threads |-> Idle(pair[t])] : pair \in ScriptPairs}
    /\ probed \in Builds

\* SpudObjectSync::new: data.lock().unwrap().extend_from_slice(&[12, 12])
NewStart(t) ==
    /\ AtStep(t, "new_start")
    /\ PushData(t, <<as_u8("ObjectStart"), as_u8("ObjectStart")>>, "start")
    /\ Advance(t)
    /\ UNCHANGED <<pc, field_names, seen_ids, objects, stack, counter, instance,
                   decoderVars, probed>>

\* SpudObjectSync::new: Self::generate_oid(&mut data.lock().unwrap())
NewOid(t) ==
    /\ AtStep(t, "new_oid")
    /\ LET oid == ObjectId_new(SameSecond, instance, counter).v
       IN  /\ PushData(t, oid, "oid")
           /\ probe' = [probe EXCEPT ![t].ip = @ + 1, ![t].oid = oid]
    /\ counter' = fetch_add(counter)
    /\ UNCHANGED <<pc, field_names, seen_ids, objects, stack, instance, decoderVars,
                   probed>>

\* SpudObjectSync::new: objects.lock().unwrap().0.insert(oid, ..)
ObjectsInsert(t) ==
    /\ AtStep(t, "objects_insert")
    /\ objects' = Append(objects, [oid |-> probe[t].oid, parent |-> 0])
    /\ probe' = [probe EXCEPT ![t].ip = @ + 1,
                              ![t].objs = Append(@, Len(objects) + 1)]
    /\ UNCHANGED <<pc, data, field_names, seen_ids, stack, counter, instance, calls,
                   decoderVars, probed>>

\* SpudBuilderSync::object: obj.lock().unwrap(), held while the callback runs
LockObject(t) ==
    /\ AtStep(t, "lock_object")
    /\ probe' = [probe EXCEPT ![t].ip = @ + 1,
                              ![t].held = @ \cup {ObjectLocks[TopObject(t)]}]
    /\ UNCHANGED <<pc, builderVars, decoderVars, probed>>

\* SpudBuilderSync::object: the callback has returned Ok and the guard is dropped
UnlockObject(t) ==
    /\ AtStep(t, "unlock_object")
    /\ probe' = [probe EXCEPT ![t].ip = @ + 1,
                              ![t].held = @ \ {ObjectLocks[TopObject(t)]}]
    /\ UNCHANGED <<pc, builderVars, decoderVars, probed>>

\* SpudBuilderSync::object: the first data.lock().unwrap().push(ObjectEnd)
PushEnd(t) ==
    /\ AtStep(t, "push_end")
    /\ PushData(t, <<as_u8("ObjectEnd")>>, "end")
    /\ Advance(t)
    /\ UNCHANGED <<pc, field_names, seen_ids, objects, stack, counter, instance,
                   decoderVars, probed>>

\* SpudBuilderSync::object: the second push, and the return
PushEndLast(t) ==
    /\ AtStep(t, "push_end_last")
    /\ PushData(t, <<as_u8("ObjectEnd")>>, "end")
    /\ probe' = [probe EXCEPT ![t].ip = @ + 1,
                              ![t].objs = SubSeq(@, 1, Len(@) - 1)]
    /\ UNCHANGED <<pc, field_names, seen_ids, objects, stack, counter, instance,
                   decoderVars, probed>>

\* add_field_name: `if let Some(value) = field_names.lock().unwrap().get(&key)`.
\* On a hit the id is copied and the else branch is skipped.  On a miss the
\* guard is dropped before the else branch in edition 2024 and lives to the
\* end of the `if let` in edition 2021.
Lookup(t) ==
    /\ AtStep(t, "lookup")
    /\ LET found == FieldNamesGet(field_names, NameAB)
       IN  probe' = [probe EXCEPT
                       ![t].found = IsSome(found),
                       ![t].id = IF IsSome(found) THEN found[1] ELSE @,
                       ![t].ip = IF IsSome(found) THEN @ + 4 ELSE @ + 1,
                       ![t].held = IF ~IsSome(found) /\ probed.edition = "2021"
                                   THEN @ \cup {"field_names"} ELSE @]
    /\ UNCHANGED <<pc, builderVars, decoderVars, probed>>

\* add_field_name: generate_u8_id_sync(&mut seen_ids.lock().unwrap())
Generate(t, drawn) ==
    /\ AtStep(t, "generate")
    /\ generate_u8_id(seen_ids, drawn).st = "ok"
    /\ seen_ids' = generate_u8_id(seen_ids, drawn).id_vec
    /\ probe' = [probe EXCEPT ![t].ip = @ + 1,
                              ![t].held = @ \cup {"seen_ids"},
                              ![t].id = generate_u8_id(seen_ids, drawn).id]
    /\ UNCHANGED <<pc, data, field_names, objects, stack, counter, instance, calls,
                   decoderVars, probed>>

\* add_field_name: generate_u8_id_sync has returned and the guard of
\* seen_ids, a temporary of the statement, is dropped
GenerateDrop(t) ==
    /\ AtStep(t, "generate_drop")
    /\ probe' = [probe EXCEPT ![t].ip = @ + 1, ![t].held = @ \ {"seen_ids"}]
    /\ UNCHANGED <<pc, builderVars, decoderVars, probed>>

\* add_field_name: field_names.lock().unwrap().insert(key, id), the end of
\* the `if let`
Insert(t) ==
    /\ AtStep(t, "insert")
    /\ field_names' = FieldNamesInsert(field_names, NameAB, probe[t].id)
    /\ probe' = [probe EXCEPT ![t].ip = @ + 1, ![t].held = @ \ {"field_names"}]
    /\ UNCHANGED <<pc, data, seen_ids, objects, stack, counter, instance, calls,
                   decoderVars, probed>>

\* add_field_name: data.lock().unwrap().push(FieldNameId)
PushTag(t) ==
    /\ AtStep(t, "push_tag")
    /\ PushData(t, <<as_u8("FieldNameId")>>, "tag")
    /\ Advance(t)
    /\ UNCHANGED <<pc, field_names, seen_ids, objects, stack, counter, instance,
                   decoderVars, probed>>

\* add_field_name: data.lock().unwrap().push(id)
PushId(t) ==
    /\ AtStep(t, "push_id")
    /\ PushData(t, <<probe[t].id>>, "id")
    /\ Advance(t)
    /\ UNCHANGED <<pc, field_names, seen_ids, objects, stack, counter, instance,
                   decoderVars, probed>>

\* add_value: value.write_spud_bytes(&mut data.lock().unwrap()) for 7u8
WriteValue(t) ==
    /\ AtStep(t, "write_value")
    /\ PushData(t, write_spud_bytes([k |-> "U8", n |-> 7], <<>>), "value")
    /\ Advance(t)
    /\ UNCHANGED <<pc, field_names, seen_ids, objects, stack, counter, instance,
                   decoderVars, probed>>

\* encode: `for object in self.objects.lock().unwrap().0.values()`, the guard
\* lives as long as the loop
EncodeLockObjects(t) ==
    /\ AtStep(t, "encode_lock_objects")
    /\ probe' = [probe EXCEPT ![t].ip = @ + 1, ![t].held = @ \cup {"objects"},
                              ![t].k = 1]
    /\ UNCHANGED <<pc, builderVars, decoderVars, probed>>

\* encode: object.lock().unwrap().encode()? for the next object of the registry
EncodeVisit(t) ==
    /\ AtStep(t, "encode_loop")
    /\ probe[t].k <= Len(objects)
    /\ probe' = [probe EXCEPT ![t].k = @ + 1]
    /\ UNCHANGED <<pc, builderVars, decoderVars, probed>>

\* encode: the loop is over and the guard of the registry is dropped
EncodeLoopEnd(t) ==
    /\ AtStep(t, "encode_loop")
    /\ probe[t].k > Len(objects)
    /\ probe' = [probe EXCEPT ![t].ip = @ + 1, ![t].held = @ \ {"objects"}]
    /\ UNCHANGED <<pc, builderVars, decoderVars, probed>>

\* encode: the first argument of initialise_header_sync,
\* &self.field_names.lock().unwrap()
HeaderLockNames(t) ==
    /\ AtStep(t, "header_lock_names")
    /\ probe' = [probe EXCEPT ![t].ip = @ + 1, ![t].held = @ \cup {"field_names"}]
    /\ UNCHANGED <<pc, builderVars, decoderVars, probed>>

\* encode: the second argument, &self.data.lock().unwrap()
HeaderLockData(t) ==
    /\ AtStep(t, "header_lock_data")
    /\ probe' = [probe EXCEPT ![t].ip = @ + 1, ![t].held = @ \cup {"data"}]
    /\ UNCHANGED <<pc, builderVars, decoderVars, probed>>

\* encode: initialise_header_sync returns and both guards are dropped
HeaderBuild(t) ==
    /\ AtStep(t, "header_build")
    /\ probe' = [probe EXCEPT ![t].ip = @ + 1,
                              ![t].held = @ \ {"field_names", "data"},
                              ![t].header = initialise_header(field_names, data)]
    /\ UNCHANGED <<pc, builderVars, decoderVars, probed>>

\* encode: self.data.lock().unwrap().clear()
EncodeClear(t) ==
    /\ AtStep(t, "encode_clear")
    /\ data' = <<>>
    /\ Advance(t)
    /\ UNCHANGED <<pc, field_names, seen_ids, objects, stack, counter, instance, calls,
                   decoderVars, probed>>

\* encode: self.data.lock().unwrap().extend_from_slice(&header); Ok(header)
EncodeExtend(t) ==
    /\ AtStep(t, "encode_extend")
    /\ data' = data \o probe[t].header
    /\ out' = probe[t].header
    /\ Advance(t)
    /\ UNCHANGED <<pc, field_names, seen_ids, objects, stack, counter, instance, calls,
                   decoder, result, probed>>

\* Mutex::lock().unwrap() panics: the mutex is poisoned, or the thread holds
\* it and the build's mutex panics.  The unwinding drops the guards the
\* thread holds, which poisons their mutexes.
LockPanics(t) ==
    /\ pc = "threads"
    /\ Needs(t) # "none"
    /\ \/ Needs(t) \in probed.poisoned
       \/ Needs(t) \in probe[t].held /\ probed.relock = "panic"
    /\ probed' = [probed EXCEPT !.poisoned = @ \cup probe[t].held]
    /\ probe' = [probe EXCEPT ![t].st = "panicked", ![t].held = {}]
    /\ UNCHANGED <<pc, builderVars, decoderVars>>

NextLocks ==
    \E t \in Threads :
        \/ NewStart(t) \/ NewOid(t) \/ ObjectsInsert(t)
        \/ LockObject(t) \/ UnlockObject(t) \/ PushEnd(t) \/ PushEndLast(t)
        \/ Lookup(t) \/ (\E drawn \in FinalDraws(seen_ids) : Generate(t, drawn))
        \/ GenerateDrop(t) \/ Insert(t) \/ PushTag(t) \/ PushId(t) \/ WriteValue(t)
        \/ EncodeLockObjects(t) \/ EncodeVisit(t) \/ EncodeLoopEnd(t)
        \/ HeaderLockNames(t) \/ HeaderLockData(t) \/ HeaderBuild(t)
        \/ EncodeClear(t) \/ EncodeExtend(t)
        \/ LockPanics(t)

SpecLocks == InitLocks /\ [][NextLocks]_vars

\* The threads that have not returned or panicked
Running == {t \in Threads : Op(t) # "none"}

\* C21: with the lock-guarded builder used from one or several threads, no
\* call of object, add_value or encode blocks forever: in no reachable state
\* is every running thread waiting for a mutex, including when encode runs
\* while an object callback is in progress, when a callback opens another
\* root object or calls encode, and when add_value meets a new field name.
C21_NoThreadBlocksForever ==
    pc = "threads" => (Running = {} \/ \E t \in Running : ~Waits(t))

\* C26: at no point does a thread hold more than one of the three
\* shared-resource locks (byte buffer, field-name registry, seen-id tracker).
C26_OneSharedLockAtATime ==
    pc = "threads" =>
        \A t \in Threads : Cardinality(probe[t].held \cap SharedLocks) <= 1


\* Both threads have built an object with a field "ab" and have returned
BothBuilt ==
    /\ pc = "threads"
    /\ \A t \in Threads : probe[t].script = "object_add" /\ probe[t].st = "run"
    /\ Running = {}

\* C27: when two threads, each building its own object of the same builder
\* tree, use the same previously unseen field name at the same time, the name
\* ends up with exactly one registry entry, exactly one id is consumed in the
\* tracker for it, and both emitted field tokens carry that entry's id.
C27_OneIdForRacedName ==
    BothBuilt =>
        /\ Len(field_names) = 1
        /\ Cardinality(seen_ids \ {0, 1}) = 1
        /\ \A i \in 1..Len(calls) :
              calls[i].part = "id" => data[calls[i].at + 1] = field_names[1].id

\* The places in the history of the writes a thread made
WritesBy(t) == {i \in 1..Len(calls) : calls[i].by = t}

\* C28: when two threads build root objects concurrently through clones of
\* one SpudBuilderSync, the bytes of each object (start markers, id, every
\* field token, end markers) form one contiguous range of the shared buffer:
\* no write of the other thread falls between two writes of one object.
C28_ObjectBytesContiguous ==
    BothBuilt =>
        \A t \in Threads :
            \A i \in WritesBy(t), j \in WritesBy(t) :
                \A m \in i..j : m \in WritesBy(t)

-----------------------------------------------------------------------------
(* spud_builder/async: SpudBuilderAsync and SpudObjectAsync, one task.  The *)
(* same calls are made on a lock-guarded builder (the builder variables)    *)
(* and on an asynchronous one (probe, a record of the same resources), with *)
(* the same clock, counter and random bytes.                                *)

\* SpudBuilderAsync::new
SpudBuilderAsync_new(seed) ==
    [data |-> <<>>, field_names |-> <<>>, seen_ids |-> {0, 1}, objects |-> <<>>,
     counter |-> seed]

\* generate_u8_id_async, given the byte drawn by the call that ends the recursion
generate_u8_id_async(id_vec, id) ==
    IF Byte \ id_vec = {} THEN [st |-> "hang", id |-> id, id_vec |-> id_vec]
    ELSE [st |-> "ok", id |-> id, id_vec |-> id_vec \cup {id}]

\* SpudObjectAsync::add_field_name
add_field_name_async(b, field_name, drawn) ==
    IF Len(field_name) > 255 THEN Err("TryFromInt")
    ELSE LET found == FieldNamesGet(b.field_names, field_name)
             gen == generate_u8_id_async(b.seen_ids, drawn)
             id == IF IsSome(found) THEN found[1] ELSE gen.id
         IN  IF ~IsSome(found) /\ gen.st = "hang"
             THEN Hang("generate_u8_id_async recurses without end")
             ELSE Ok([b EXCEPT
                        !.seen_ids = IF IsSome(found) THEN @ ELSE gen.id_vec,
                        !.field_names =
                            IF IsSome(found) THEN @
                            ELSE Append(@, [name |-> field_name,
                                            len |-> Len(field_name), id |-> id]),
                        !.data = @ \o <<as_u8("FieldNameId"), id>>])

\* SpudObjectAsync::new
SpudObjectAsync_new(b, parent, timestamp_secs, instance_bytes) ==
    LET started == [b EXCEPT !.data = @ \o <<as_u8("ObjectStart"), as_u8("ObjectStart")>>]
        oid == ObjectId_new(timestamp_secs, instance_bytes, b.counter)
    IN  IF oid.st = "err" THEN [st |-> "err", v |-> oid.v, b |-> started]
        ELSE [st |-> "ok", v |-> oid.v,
              b |-> [started EXCEPT
                       !.counter = fetch_add(@),
                       !.data = @ \o oid.v,
                       !.objects = Append(@, [oid |-> oid.v, parent |-> parent])]]

\* SpudObjectAsync::add_value
add_value_async(b, field_name, value, drawn) ==
    LET named == add_field_name_async(b, field_name, drawn)
    IN  IF named.st # "ok" THEN named
        ELSE Ok([named.v EXCEPT !.data = write_spud_bytes(value, @)])

\* The tail of SpudObjectAsync::object once the callback's future is done:
\* `f(obj).await?`, then the two end markers
SpudObjectAsync_object_return(b, callback_ok) ==
    IF callback_ok
    THEN [b EXCEPT !.data = @ \o <<as_u8("ObjectEnd"), as_u8("ObjectEnd")>>]
    ELSE b

\* The tail of SpudBuilderAsync::object: `f(obj).await?; Ok(())`
SpudBuilderAsync_object_return(b, callback_ok) == b

\* SpudBuilderAsync::encode: the walk over the registries writes nothing and
\* a clone of the buffer is returned
SpudBuilderAsync_encode(b) == [b |-> b, v |-> b.data]

InitAsync ==
    /\ pc = "build"
    /\ \E seed \in CounterSeeds :
          /\ data = SpudBuilderSync_new(seed).data
          /\ field_names = SpudBuilderSync_new(seed).field_names
          /\ seen_ids = SpudBuilderSync_new(seed).seen_ids
          /\ objects = SpudBuilderSync_new(seed).objects
          /\ counter = SpudBuilderSync_new(seed).counter
          /\ probe = SpudBuilderAsync_new(seed)
    /\ instance \in InstanceIds
    /\ stack = <<>>
    /\ calls = <<>>
    /\ out = <<>>
    /\ decoder = NoOutcome
    /\ result = NoOutcome
    /\ probed = <<>>

\* builder.object(..) on both builders, up to the call of the callback
BothObject(timestamp_secs) ==
    /\ pc = "build"
    /\ stack = <<>>
    /\ Len(calls) < MaxCalls
    /\ LET made == SpudObjectSync_new(B, 0, timestamp_secs, instance)
           made_async == SpudObjectAsync_new(probe, 0, timestamp_secs, instance)
       IN  /\ SetB(made.b)
           /\ probe' = made_async.b
           /\ stack' = IF made.st = "ok" THEN <<"root">> ELSE stack
           /\ calls' = Append(calls, [op |-> "builder_object", ok |-> made.st = "ok"])
    /\ UNCHANGED <<pc, instance, decoderVars, probed>>

\* obj.add_value(field_name, value) on both builders
BothAddValue(field_name, value, drawn) ==
    /\ pc = "build"
    /\ stack # <<>>
    /\ Len(calls) < MaxCalls
    /\ LET added == add_value(B, field_name, value, drawn)
           added_async == add_value_async(probe, field_name, value, drawn)
       IN  /\ added.st = "ok" /\ added_async.st = "ok"
           /\ SetB(added.v)
           /\ probe' = added_async.v
           /\ calls' = Append(calls, [op |-> "add_value", ok |-> TRUE])
    /\ UNCHANGED <<pc, stack, instance, decoderVars, probed>>

\* obj.object(field_name, ..) on both builders, up to the call of the callback
BothNested(field_name, timestamp_secs, drawn) ==
    /\ pc = "build"
    /\ stack # <<>>
    /\ Len(stack) < MaxDepth
    /\ Len(calls) < MaxCalls
    /\ LET named == add_field_name(B, field_name, drawn)
           named_async == add_field_name_async(probe, field_name, drawn)
       IN  /\ named.st = "ok" /\ named_async.st = "ok"
           /\ LET made == SpudObjectSync_new(named.v, Len(objects), timestamp_secs,
                                             instance)
                  made_async == SpudObjectAsync_new(named_async.v, Len(probe.objects),
                                                    timestamp_secs, instance)
              IN  /\ SetB(made.b)
                  /\ probe' = made_async.b
                  /\ stack' = IF made.st = "ok" THEN Append(stack, "nested") ELSE stack
                  /\ calls' = Append(calls, [op |-> "object", ok |-> made.st = "ok"])
    /\ UNCHANGED <<pc, instance, decoderVars, probed>>

\* The innermost callback returns on both builders
BothReturn(callback_ok) ==
    /\ pc = "build"
    /\ stack # <<>>
    /\ SetB(object_return(B, callback_ok))
    /\ probe' = IF stack[Len(stack)] = "root"
                THEN SpudBuilderAsync_object_return(probe, callback_ok)
                ELSE SpudObjectAsync_object_return(probe, callback_ok)
    /\ stack' = SubSeq(stack, 1, Len(stack) - 1)
    /\ UNCHANGED <<pc, instance, calls, decoderVars, probed>>

\* builder.encode() on both builders
BothEncode ==
    /\ pc = "build"
    /\ stack = <<>>
    /\ SetB(SpudBuilderSync_encode(B).b)
    /\ out' = SpudBuilderSync_encode(B).v
    /\ probe' = SpudBuilderAsync_encode(probe).b
    /\ probed' = SpudBuilderAsync_encode(probe).v
    /\ pc' = "encoded"
    /\ UNCHANGED <<stack, instance, calls, decoder, result>>

NextAsync ==
    \/ \E ts \in Timestamps : BothObject(ts)
    \/ \E name \in ValueNames, value \in Palette, id \in FinalDraws(seen_ids) :
          BothAddValue(name, value, id)
    \/ \E name \in ValueNames, ts \in Timestamps, id \in FinalDraws(seen_ids) :
          BothNested(name, ts, id)
    \/ \E ok \in BOOLEAN : BothReturn(ok)
    \/ BothEncode

SpecAsync == InitAsync /\ [][NextAsync]_vars

\* C22: for the same sequence of root-object, add_value and nested-object
\* calls, the asynchronous builder and the lock-guarded builder return from
\* encode byte streams that are equal up to the values of object ids and
\* field ids; here both are given the same ids, so that the streams are equal.
C22_AsyncEqualsSync ==
    pc = "encoded" => probed = out

=============================================================================
